---- MODULE Spec2Model ----
(***************************************************************************)
(* A model of docgrab (src/services/mpc/docs/doc.py): URL normalisation    *)
(* and slugs, the fetch client, page discovery (llms.txt manifest, sitemap,*)
(* sidebar/nav scrape), selection parsing and the page download loop.      *)
(*                                                                         *)
(* Strings are sequences of one-character strings, so that strip, rstrip,  *)
(* startswith, re.sub and urlsplit are computed character by character.    *)
(***************************************************************************)
EXTENDS Integers, Sequences, FiniteSets, TLC

VARIABLES
    \* ---- URL helpers (normalize_url, safe_slug, slug_from_url, url_to_page_slug)
    upc,        \* position of the URL-helper run
    raw,        \* the input string
    norm1,      \* normalize_url(raw)
    norm2,      \* normalize_url(normalize_url(raw))
    slug,       \* the slug last derived from raw
    slugKind,   \* which slug function produced slug
    \* ---- parse_selection
    spc,        \* position of the selection run
    sel,        \* the selection string typed by the user
    seln,       \* n, the number of listed pages
    selOut,     \* the list parse_selection returns
    \* ---- fetch
    fpc,        \* position inside fetch: "try", "backoff", "returned"
    retries,    \* the retries argument
    attempt,    \* the loop variable of fetch
    attempts,   \* the outcome of every urlopen attempt so far, in order
    sleeps,     \* the backoff waits so far, in tenths of a second
    fres,       \* what fetch returned
    \* ---- extract_urls_from_llms_txt
    mpc,        \* position of the manifest scan
    mbase,      \* base_url
    mtext,      \* the link targets the two re.findall calls find in the text
    mout,       \* what the scan returns, or that it raised
    \* ---- discover_pages
    dpc,        \* position inside discover_pages and the functions it calls
    dbase,      \* discover_pages: base_url
    web,        \* the site: the response fetch gets for each URL
    ci,         \* try_llms_files: index of the next candidate
    seenC,      \* try_llms_files: seen
    found,      \* try_llms_files: found, as a set of [name, url, body]
    fetched,    \* every URL handed to fetch so far, in order
    sm,         \* fetch_sitemap_urls: its locals
    ret,        \* what discover_pages returned
    \* ---- download_pages
    wpc,        \* position inside download_pages
    dsel,       \* urls, as passed in
    max_pages,  \* max_pages
    failAt,     \* which save raises OSError (the k-th one; 0: none does)
    durls,      \* urls[:max_pages]
    di,         \* index of the URL the loop is at
    dlog,       \* the fetches, saves and sleeps made, in order
    disk,       \* the files written: path -> content
    md_paths,   \* md_paths
    \* ---- MarkdownishParser, html_to_markdownish
    cpc,        \* position of the conversion
    chtml,      \* html: the document, as its tags and the text between them
    cdoc,       \* the events HTMLParser reports when fed main, in order
    ck,         \* index of the next event
    cst,        \* the parser's fields
    ctext,      \* what get_text returned
    \* ---- main, run_for_url, run_for_url_auto, choose_action
    rpc,        \* position inside main and the run of the current target
    rkind,      \* which runs main makes: "interactive" or "auto"
    rmode,      \* mode of run_for_url_auto: "full", "all" or "start"
    rargs,      \* sys.argv[1:]
    ri,         \* main: index of the next target
    rraw,       \* the target handed to run_for_url / run_for_url_auto
    plan,       \* what the chosen action or mode makes the run do
    prompts,    \* choose_action: the answers rejected so far
    siteDir,    \* the site directory created for the target, if any
    outs,       \* the files the run itself has written, in order
    status,     \* the exit status of the process, once it has ended
    results,    \* main: what the run of each earlier target came to
    \* ---- SidebarLinkParser fed event by event
    npc,        \* position of the feed
    nevents,    \* the start-tag and end-tag events of the page, in order
    nk,         \* index of the next event
    nst,        \* the parser's fields
    \* ---- the two converters' parsers fed event by event
    kpc,        \* position of the feed
    kconv,      \* the converter that runs
    kevents,    \* the start-tag, end-tag and text events, in order
    kk,         \* index of the next event
    kmd,        \* the fields of MarkdownishParser
    ktx         \* the fields of HTMLTextExtractor

urlVars == <<upc, raw, norm1, norm2, slug, slugKind>>
selVars == <<spc, sel, seln, selOut>>
fetchVars == <<fpc, retries, attempt, attempts, sleeps, fres>>
manVars == <<mpc, mbase, mtext, mout>>
discVars == <<dpc, dbase, web, ci, seenC, found, fetched, sm, ret>>

downVars == <<wpc, dsel, max_pages, failAt, durls, di, dlog, disk, md_paths>>

convVars == <<cpc, chtml, cdoc, ck, cst, ctext>>

runVars == <<rpc, rkind, rmode, rargs, ri, rraw, plan, prompts, siteDir, outs, status, results>>

sideVars == <<npc, nevents, nk, nst>>

skipVars == <<kpc, kconv, kevents, kk, kmd, ktx>>

vars == <<urlVars, selVars, fetchVars, manVars, discVars, downVars, convVars, runVars, sideVars, skipVars>>

\* what the actions of one part leave alone
notUrlVars == <<selVars, fetchVars, manVars, discVars, downVars, convVars, runVars, sideVars, skipVars>>
notSelVars == <<urlVars, fetchVars, manVars, discVars, downVars, convVars, runVars, sideVars, skipVars>>
notFetchVars == <<urlVars, selVars, manVars, discVars, downVars, convVars, runVars, sideVars, skipVars>>
notManVars == <<urlVars, selVars, fetchVars, discVars, downVars, convVars, runVars, sideVars, skipVars>>
notDiscVars == <<urlVars, selVars, fetchVars, manVars, downVars, convVars, runVars, sideVars, skipVars>>
\* download_pages fetches from the same site and adds to the same fetch log
notDownVars == <<urlVars, selVars, fetchVars, manVars, dpc, dbase, web, ci, seenC, found, sm, ret, convVars, runVars, sideVars, skipVars>>
notConvVars == <<urlVars, selVars, fetchVars, manVars, discVars, downVars, runVars, sideVars, skipVars>>
notRunVars == <<urlVars, selVars, fetchVars, manVars, discVars, downVars, convVars, sideVars, skipVars>>
notSideVars == <<urlVars, selVars, fetchVars, manVars, discVars, downVars, convVars, runVars, skipVars>>
notSkipVars == <<urlVars, selVars, fetchVars, manVars, discVars, downVars, convVars, runVars, sideVars>>

(***************************************************************************)
(* Bounds                                                                  *)
(***************************************************************************)
MaxLen == 3          \* longest free part of an input string
MaxSelLen == 4       \* longest selection string typed
MaxN == 3            \* most pages listed when a selection is parsed
MaxRetries == 2      \* largest retries argument of fetch
MaxLinks == 2        \* most links in a manifest text
MaxLocs == 2         \* most <url> entries in a sitemap
MaxChildren == 2     \* most <sitemap> entries in a sitemap index
MaxUrls == 3         \* most URLs handed to download_pages

(***************************************************************************)
(* Characters and strings                                                  *)
(***************************************************************************)
UpperLetters ==
    {"A","B","C","D","E","F","G","H","I","J","K","L","M",
     "N","O","P","Q","R","S","T","U","V","W","X","Y","Z"}

LowerLetters ==
    {"a","b","c","d","e","f","g","h","i","j","k","l","m",
     "n","o","p","q","r","s","t","u","v","w","x","y","z"}

Digits == {"0","1","2","3","4","5","6","7","8","9"}

Alphabet ==
    <<"a","b","c","d","e","f","g","h","i","j","k","l","m",
      "n","o","p","q","r","s","t","u","v","w","x","y","z">>
Capitals ==
    <<"A","B","C","D","E","F","G","H","I","J","K","L","M",
      "N","O","P","Q","R","S","T","U","V","W","X","Y","Z">>

\* str.lower() on one ASCII character
Lower(c) ==
    IF \E i \in 1..Len(Capitals) : Capitals[i] = c
    THEN Alphabet[CHOOSE i \in 1..Len(Capitals) : Capitals[i] = c]
    ELSE c

\* the character class [A-Za-z0-9._-] of safe_slug
SafeChars == UpperLetters \cup LowerLetters \cup Digits \cup {".", "_", "-"}

\* urllib.parse.scheme_chars
SchemeChars == UpperLetters \cup LowerLetters \cup Digits \cup {"+", "-", "."}

\* what str.strip() with no argument removes
Whitespace == {" ", "\t", "\n", "\r"}

Quotes == {"'", "\""}

Max(S) == CHOOSE x \in S : \A y \in S : y <= x
Min(S) == CHOOSE x \in S : \A y \in S : x <= y

\* str.rstrip(cs)
RStrip(s, cs) ==
    LET keep == {i \in 1..Len(s) : s[i] \notin cs}
    IN  IF keep = {} THEN <<>> ELSE SubSeq(s, 1, Max(keep))

\* str.lstrip(cs)
LStrip(s, cs) ==
    LET keep == {i \in 1..Len(s) : s[i] \notin cs}
    IN  IF keep = {} THEN <<>> ELSE SubSeq(s, Min(keep), Len(s))

\* str.strip(cs)
Strip(s, cs) == LStrip(RStrip(s, cs), cs)

\* str.startswith(p)
StartsWith(s, p) == Len(p) <= Len(s) /\ SubSeq(s, 1, Len(p)) = p

\* str.find over a set of characters: the first index >= from holding one of cs,
\* Len(s)+1 when there is none
FindAny(s, cs, from) ==
    LET hits == {i \in from..Len(s) : s[i] \in cs}
    IN  IF hits = {} THEN Len(s) + 1 ELSE Min(hits)

\* s[i:] in Python terms, i being a 1-based index
From(s, i) == IF i > Len(s) THEN <<>> ELSE SubSeq(s, i, Len(s))

HTTPS == <<"h","t","t","p","s",":","/","/">>
HTTP  == <<"h","t","t","p",":","/","/">>
HttpsScheme == <<"h","t","t","p","s">>
HttpScheme == <<"h","t","t","p">>

\* re.match(r"^https?://", raw, re.IGNORECASE)
HasHttpScheme(s) ==
    LET low == [i \in 1..Len(s) |-> Lower(s[i])]
    IN  StartsWith(low, HTTPS) \/ StartsWith(low, HTTP)

(***************************************************************************)
(* normalize_url                                                           *)
(***************************************************************************)
normalize_url(u) ==
    LET a == Strip(u, Whitespace)
        b == RStrip(Strip(Strip(a, Whitespace), Quotes), Quotes)
    IN  IF b = <<>> THEN <<>>
        ELSE LET c == IF HasHttpScheme(b) THEN b ELSE HTTPS \o b
             IN  RStrip(c, {"/"})

(***************************************************************************)
(* urlsplit (urllib.parse).  The result is a record; err is TRUE where     *)
(* urlsplit raises ValueError.                                             *)
(***************************************************************************)
\* url[i+1:] with the scheme url[:i] split off, when url[:i] is a scheme
SplitScheme(u, i) ==
    IF /\ i > 1
       /\ i <= Len(u)
       /\ u[1] \in UpperLetters \cup LowerLetters
       /\ \A k \in 1..(i-1) : u[k] \in SchemeChars
    THEN [scheme |-> [k \in 1..(i-1) |-> Lower(u[k])], rest |-> From(u, i + 1)]
    ELSE [scheme |-> <<>>, rest |-> u]

\* _splitnetloc(url, 2) when url[:2] == "//"; delim is the first of "/?#" after it
SplitNetloc(s, delim) ==
    IF StartsWith(s.rest, <<"/","/">>)
    THEN [scheme |-> s.scheme, netloc |-> SubSeq(s.rest, 3, delim - 1),
          rest |-> From(s.rest, delim)]
    ELSE [scheme |-> s.scheme, netloc |-> <<>>, rest |-> s.rest]

\* url.split("#", 1); h is the place of the first "#"
SplitFragment(s, h) ==
    [scheme |-> s.scheme, netloc |-> s.netloc,
     rest |-> SubSeq(s.rest, 1, h - 1), fragment |-> From(s.rest, h + 1)]

\* url.split("?", 1); q is the place of the first "?".  A host in brackets must
\* be an IPv6 or IPvFuture literal; the characters of the model's alphabets form
\* none, so any bracket in the netloc raises.
SplitQuery(s, q) ==
    [scheme |-> s.scheme, netloc |-> s.netloc,
     path |-> SubSeq(s.rest, 1, q - 1), query |-> From(s.rest, q + 1),
     fragment |-> s.fragment,
     err |-> \E k \in 1..Len(s.netloc) : s.netloc[k] \in {"[", "]"}]

WithQuery(s) == SplitQuery(s, FindAny(s.rest, {"?"}, 1))
WithFragment(s) == WithQuery(SplitFragment(s, FindAny(s.rest, {"#"}, 1)))
WithNetloc(s) == WithFragment(SplitNetloc(s, FindAny(s.rest, {"/", "?", "#"}, 3)))
WithScheme(u) == WithNetloc(SplitScheme(u, FindAny(u, {":"}, 1)))

urlsplit(url) ==
    WithScheme(SelectSeq(LStrip(url, {" "}), LAMBDA c : c \notin {"\t", "\r", "\n"}))

(***************************************************************************)
(* Slugs                                                                   *)
(***************************************************************************)
\* re.sub(r"[^A-Za-z0-9._-]+", "_", s): every maximal run of other characters
\* becomes one underscore
SubUnsafe(s) ==
    LET m == [i \in 1..Len(s) |->
                IF s[i] \in SafeChars THEN s[i]
                ELSE IF i = 1 \/ s[i-1] \in SafeChars THEN "_" ELSE "DROP"]
    IN  SelectSeq(m, LAMBDA c : c # "DROP")

DefaultSlug == <<"s","i","t","e">>

\* safe_slug without the fallback to the default token
safe_slug_no_default(s) == Strip(SubUnsafe(s), {"_"})

safe_slug(s) ==
    LET t == Strip(SubUnsafe(s), {"_"})
    IN  IF t = <<>> THEN DefaultSlug ELSE t

slug_from_url(url) ==
    LET parts == urlsplit(url)
        host  == [i \in 1..Len(parts.netloc) |->
                    IF parts.netloc[i] = ":" THEN "_" ELSE parts.netloc[i]]
        path  == Strip(parts.path, {"/"})
    IN  IF path # <<>> THEN safe_slug(host \o <<"_","_">> \o path)
        ELSE safe_slug(host)

MaxSlugLen == 140

IndexSlug == <<"i","n","d","e","x">>

url_to_page_slug(url) ==
    LET parts == urlsplit(url)
        p0    == Strip(parts.path, {"/"})
        path  == IF p0 = <<>> THEN IndexSlug ELSE p0
        s     == safe_slug(path)
    IN  IF Len(s) > MaxSlugLen THEN SubSeq(s, 1, MaxSlugLen) ELSE s

(***************************************************************************)
(* URL-helper runs: an input string is normalised twice and slugged        *)
(***************************************************************************)
UrlChars == {"a", "/", "'", " ", "!", "_", ":"}

RECURSIVE StringsUpTo(_, _)
StringsUpTo(cs, n) ==
    IF n = 0 THEN {<<>>}
    ELSE LET shorter == StringsUpTo(cs, n - 1)
         IN  shorter \cup {Append(s, c) : s \in shorter, c \in cs}

\* a path of MaxSlugLen - 1 safe characters: with up to MaxLen more characters
\* the page slug falls on both sides of the truncation
LongPath == HTTPS \o <<"a", "/">> \o [i \in 1..(MaxSlugLen - 1) |-> "a"]

UrlPrefixes == {<<>>, HTTPS, <<"H","T","T","P",":","/","/">>, LongPath}

UrlInputs == {p \o s : p \in UrlPrefixes, s \in StringsUpTo(UrlChars, MaxLen)}

NoStr == <<"<unset>">>

UrlIdle ==
    /\ upc = "idle"
    /\ raw = <<>>
    /\ norm1 = NoStr
    /\ norm2 = NoStr
    /\ slug = NoStr
    /\ slugKind = "none"

SelIdle ==
    /\ spc = "idle"
    /\ sel = <<>>
    /\ seln = 0
    /\ selOut = <<>>

FetchIdle ==
    /\ fpc = "idle"
    /\ retries = 0
    /\ attempt = 0
    /\ attempts = <<>>
    /\ sleeps = <<>>
    /\ fres = [kind |-> "unset", attempt |-> 0]

ManIdle ==
    /\ mpc = "idle"
    /\ mbase = <<>>
    /\ mtext = <<>>
    /\ mout = [raised |-> FALSE, urls |-> <<>>]

NoSitemap == [i |-> 1, xml |-> <<>>, kids |-> <<>>, k |-> 1, got |-> <<>>,
              urls |-> <<>>, out |-> <<>>]

NoReturn == [method |-> "", pages |-> <<>>, files |-> {}]

DiscIdle ==
    /\ dpc = "idle"
    /\ dbase = <<>>
    /\ web = <<>>
    /\ ci = 1
    /\ seenC = {}
    /\ found = {}
    /\ fetched = <<>>
    /\ sm = NoSitemap
    /\ ret = NoReturn

DownIdle ==
    /\ wpc = "idle"
    /\ dsel = <<>>
    /\ max_pages = 0
    /\ failAt = 0
    /\ durls = <<>>
    /\ di = 1
    /\ dlog = <<>>
    /\ disk = <<>>
    /\ md_paths = <<>>

\* SidebarLinkParser.__init__
NewParser == [stack |-> <<>>, urls |-> <<>>, ignore |-> 0, raised |-> FALSE]

SideIdle ==
    /\ npc = "idle"
    /\ nevents = <<>>
    /\ nk = 1
    /\ nst = NewParser

\* no action chosen yet
NoPlan == [action |-> "", chosen |-> <<>>, max |-> 0, download |-> FALSE,
           combine |-> FALSE, meta |-> FALSE]

RunIdle ==
    /\ rpc = "idle"
    /\ rkind = ""
    /\ rmode = ""
    /\ rargs = <<>>
    /\ ri = 1
    /\ rraw = <<>>
    /\ plan = NoPlan
    /\ prompts = 0
    /\ siteDir = NoStr
    /\ outs = <<>>
    /\ status = <<>>
    /\ results = <<>>

\* MarkdownishParser.__init__
NewMarkdownishParser ==
    [out |-> <<>>, _ignore_depth |-> 0, _in_pre |-> FALSE, _in_code_inline |-> FALSE,
     _pending_heading |-> 0, _li_prefix_pending |-> FALSE]

\* HTMLTextExtractor.__init__
NewTextExtractor == [parts |-> <<>>, _skip_depth |-> 0]

SkipIdle ==
    /\ kpc = "idle"
    /\ kconv = "none"
    /\ kevents = <<>>
    /\ kk = 1
    /\ kmd = NewMarkdownishParser
    /\ ktx = NewTextExtractor

ConvIdle ==
    /\ cpc = "idle"
    /\ chtml = <<>>
    /\ cdoc = <<>>
    /\ ck = 1
    /\ cst = NewMarkdownishParser
    /\ ctext = NoStr

UrlInit ==
    /\ SkipIdle
    /\ SideIdle
    /\ RunIdle
    /\ ConvIdle
    /\ SelIdle
    /\ FetchIdle
    /\ ManIdle
    /\ DiscIdle
    /\ DownIdle
    /\ upc = "start"
    /\ raw \in UrlInputs
    /\ norm1 = NoStr
    /\ norm2 = NoStr
    /\ slug = NoStr
    /\ slugKind = "none"

\* normalize_url(raw)
NormalizeUrl ==
    /\ upc = "start"
    /\ norm1' = normalize_url(raw)
    /\ upc' = "normalized"
    /\ UNCHANGED <<raw, norm2, slug, slugKind, notUrlVars>>

\* normalize_url applied to its own result
NormalizeAgain ==
    /\ upc = "normalized"
    /\ norm2' = normalize_url(norm1)
    /\ upc' = "renormalized"
    /\ UNCHANGED <<raw, norm1, slug, slugKind, notUrlVars>>

\* safe_slug(raw)
SafeSlug ==
    /\ upc = "start"
    /\ slug' = safe_slug(raw)
    /\ slugKind' = "safe_slug"
    /\ upc' = "slugged"
    /\ UNCHANGED <<raw, norm1, norm2, notUrlVars>>

\* slug_from_url(raw)
SlugFromUrl ==
    /\ upc = "start"
    /\ ~urlsplit(raw).err
    /\ slug' = slug_from_url(raw)
    /\ slugKind' = "slug_from_url"
    /\ upc' = "slugged"
    /\ UNCHANGED <<raw, norm1, norm2, notUrlVars>>

\* url_to_page_slug(raw)
UrlToPageSlug ==
    /\ upc = "start"
    /\ ~urlsplit(raw).err
    /\ slug' = url_to_page_slug(raw)
    /\ slugKind' = "url_to_page_slug"
    /\ upc' = "slugged"
    /\ UNCHANGED <<raw, norm1, norm2, notUrlVars>>

UrlNext ==
    \/ NormalizeUrl
    \/ NormalizeAgain
    \/ SafeSlug
    \/ SlugFromUrl
    \/ UrlToPageSlug

SpecUrl == UrlInit /\ [][UrlNext]_vars


(***************************************************************************)
(* parse_selection                                                         *)
(***************************************************************************)
DigitValue(c) ==
    CASE c = "0" -> 0 [] c = "1" -> 1 [] c = "2" -> 2 [] c = "3" -> 3
      [] c = "4" -> 4 [] c = "5" -> 5 [] c = "6" -> 6 [] c = "7" -> 7
      [] c = "8" -> 8 [] c = "9" -> 9

RECURSIVE Decimal(_)
Decimal(ds) ==
    IF ds = <<>> THEN 0
    ELSE 10 * Decimal(SubSeq(ds, 1, Len(ds) - 1)) + DigitValue(ds[Len(ds)])

\* int(s): surrounding whitespace is ignored, one sign is allowed, the rest must
\* be decimal digits.  ok is FALSE where int raises ValueError.
PyInt(s) ==
    LET t      == Strip(s, Whitespace)
        signed == t # <<>> /\ t[1] \in {"+", "-"}
        ds     == IF signed THEN From(t, 2) ELSE t
        ok     == ds # <<>> /\ \A i \in 1..Len(ds) : ds[i] \in Digits
    IN  [ok |-> ok,
         val |-> IF ~ok THEN 0
                 ELSE IF signed /\ t[1] = "-" THEN 0 - Decimal(ds) ELSE Decimal(ds)]

\* str.split(sep): the pieces between the separators, empty pieces included
Split(s, sep) ==
    LET cuts == {i \in 1..Len(s) : s[i] = sep}
        ends == cuts \cup {Len(s) + 1}
        prev(e) == IF \E c \in cuts : c < e THEN Max({c \in cuts : c < e}) ELSE 0
        nth[k \in 1..Cardinality(ends)] ==
            IF k = 1 THEN Min(ends) ELSE Min({e \in ends : e > nth[k-1]})
    IN  [k \in 1..Cardinality(ends) |-> SubSeq(s, prev(nth[k]) + 1, nth[k] - 1)]

\* sorted(S) for a set of integers
RECURSIVE SortedInts(_)
SortedInts(S) ==
    IF S = {} THEN <<>> ELSE <<Min(S)>> \o SortedInts(S \ {Min(S)})

Between(a, b) == IF a > b THEN b..a ELSE a..b

\* PartIndices without the bounds test on a single index
PartIndicesUnbounded(part0, n) ==
    LET part == Strip(part0, Whitespace)
        dash == FindAny(part, {"-"}, 1)
    IN  IF part = <<>> THEN {}
        ELSE IF dash <= Len(part) THEN
            LET a == PyInt(SubSeq(part, 1, dash - 1))
                b == PyInt(From(part, dash + 1))
            IN  IF a.ok /\ b.ok
                THEN {x \in Between(a.val, b.val) : 1 <= x /\ x <= n}
                ELSE {}
        ELSE LET x == PyInt(part)
             IN  IF x.ok THEN {x.val} ELSE {}

\* the indices one comma-separated part adds to out
PartIndices(part0, n) ==
    LET part == Strip(part0, Whitespace)
        dash == FindAny(part, {"-"}, 1)
    IN  IF part = <<>> THEN {}
        ELSE IF dash <= Len(part) THEN
            LET a == PyInt(SubSeq(part, 1, dash - 1))
                b == PyInt(From(part, dash + 1))
            IN  IF a.ok /\ b.ok
                THEN {x \in Between(a.val, b.val) : 1 <= x /\ x <= n}
                ELSE {}
        ELSE LET x == PyInt(part)
             IN  IF x.ok /\ 1 <= x.val /\ x.val <= n THEN {x.val} ELSE {}

parse_selection(s, n) ==
    LET t     == Strip(s, Whitespace)
        parts == Split(t, ",")
    IN  IF t = <<>> THEN <<>>
        ELSE SortedInts(UNION {PartIndices(parts[k], n) : k \in 1..Len(parts)})

SelChars == {"1", "3", "-", ",", " ", "x"}

\* the selection "2,4-6,99", typed against a list of 6 pages
ScenarioSel == <<"2", ",", "4", "-", "6", ",", "9", "9">>

SelInit ==
    /\ SkipIdle
    /\ SideIdle
    /\ RunIdle
    /\ ConvIdle
    /\ UrlIdle
    /\ FetchIdle
    /\ ManIdle
    /\ DiscIdle
    /\ DownIdle
    /\ spc = "start"
    /\ \/ sel \in StringsUpTo(SelChars, MaxSelLen) /\ seln \in 0..MaxN
       \/ sel = ScenarioSel /\ seln = 6
    /\ selOut = <<>>

\* parse_selection(sel, n)
ParseSelection ==
    /\ spc = "start"
    /\ selOut' = parse_selection(sel, seln)
    /\ spc' = "parsed"
    /\ UNCHANGED <<sel, seln, notSelVars>>

SelNext == ParseSelection

SpecSel == SelInit /\ [][SelNext]_vars

(***************************************************************************)
(* fetch: one urlopen attempt per loop round, a backoff sleep after each   *)
(* failed attempt, None after the last                                     *)
(***************************************************************************)
\* what one attempt can do: hand back a response, or raise inside the try
AttemptFailures == {"HTTPError", "URLError", "Exception"}
AttemptOutcomes == {"response"} \cup AttemptFailures

FetchInit ==
    /\ SkipIdle
    /\ SideIdle
    /\ RunIdle
    /\ ConvIdle
    /\ UrlIdle
    /\ SelIdle
    /\ ManIdle
    /\ DiscIdle
    /\ DownIdle
    /\ fpc = "try"
    /\ retries \in 0..MaxRetries
    /\ attempt = 0
    /\ attempts = <<>>
    /\ sleeps = <<>>
    /\ fres = [kind |-> "unset", attempt |-> 0]

\* the except clauses of fetch: (HTTPError, URLError), then Exception
Caught(e) == e \in {"HTTPError", "URLError", "Exception"}

\* a loop test that allows one round too many
FetchLoopOpenOffByOne(a, r) == a <= r + 1

\* the loop test of for attempt in range(retries + 1)
FetchLoopOpen(a, r) == a < r + 1

\* urlopen returns and the body is read: fetch returns the FetchResult
FetchAttemptOk ==
    /\ fpc = "try"
    /\ FetchLoopOpen(attempt, retries)
    /\ attempts' = Append(attempts, "response")
    /\ fres' = [kind |-> "FetchResult", attempt |-> attempt]
    /\ fpc' = "returned"
    /\ UNCHANGED <<retries, attempt, sleeps, notFetchVars>>

\* the attempt raises: HTTPError/URLError or any other Exception is caught
FetchAttemptFails ==
    /\ fpc = "try"
    /\ FetchLoopOpen(attempt, retries)
    /\ \E e \in AttemptFailures :
          /\ attempts' = Append(attempts, e)
          /\ fpc' = IF Caught(e) THEN "backoff" ELSE "raised"
    /\ UNCHANGED <<retries, attempt, sleeps, fres, notFetchVars>>

\* time.sleep(0.4 * (attempt + 1)), then the next round
FetchBackoff ==
    /\ fpc = "backoff"
    /\ sleeps' = Append(sleeps, 4 * (attempt + 1))
    /\ attempt' = attempt + 1
    /\ fpc' = "try"
    /\ UNCHANGED <<retries, attempts, fres, notFetchVars>>

\* the loop is exhausted: return None
FetchGiveUp ==
    /\ fpc = "try"
    /\ ~FetchLoopOpen(attempt, retries)
    /\ fres' = [kind |-> "None", attempt |-> 0]
    /\ fpc' = "returned"
    /\ UNCHANGED <<retries, attempt, attempts, sleeps, notFetchVars>>

FetchNext ==
    \/ FetchAttemptOk
    \/ FetchAttemptFails
    \/ FetchBackoff
    \/ FetchGiveUp

SpecFetch == FetchInit /\ [][FetchNext]_vars

(***************************************************************************)
(* urlunsplit, urljoin (urllib.parse) and the order of sorted()            *)
(***************************************************************************)
urlunsplit(scheme, netloc, path, query, fragment) ==
    (IF scheme # <<>> THEN scheme \o <<":">> ELSE <<>>)
    \o (IF netloc # <<>> \/ (scheme \in {HttpsScheme, HttpScheme}
                              /\ ~StartsWith(path, <<"/","/">>))
        THEN <<"/","/">> \o netloc
             \o (IF path # <<>> /\ path[1] # "/" THEN <<"/">> ELSE <<>>)
        ELSE <<>>)
    \o path
    \o (IF query # <<>> THEN <<"?">> \o query ELSE <<>>)
    \o (IF fragment # <<>> THEN <<"#">> \o fragment ELSE <<>>)

\* the base path without its last segment
BaseDir(bpath) ==
    IF \E i \in 1..Len(bpath) : bpath[i] = "/"
    THEN SubSeq(bpath, 1, Max({i \in 1..Len(bpath) : bpath[i] = "/"}))
    ELSE <<>>

\* the path of a reference merged into the directory of the base
MergedPath(dir, rpath) ==
    IF rpath # <<>> /\ rpath[1] = "/" THEN rpath
    ELSE IF dir = <<>> THEN <<"/">> \o rpath ELSE dir \o rpath

\* urljoin once both arguments are parsed (b the base, r the reference whose
\* default scheme is the base's)
JoinParts(base, ref, b, r, rscheme) ==
    IF b.err \/ r.err THEN [err |-> TRUE, url |-> <<>>]
    ELSE IF ref = <<>> THEN [err |-> FALSE, url |-> base]
    ELSE IF rscheme # b.scheme THEN [err |-> FALSE, url |-> ref]
    ELSE IF r.netloc # <<>>
         THEN [err |-> FALSE,
               url |-> urlunsplit(rscheme, r.netloc, r.path, r.query, r.fragment)]
    ELSE IF r.path = <<>>
         THEN [err |-> FALSE,
               url |-> urlunsplit(rscheme, b.netloc, b.path,
                                  IF r.query # <<>> THEN r.query ELSE b.query,
                                  r.fragment)]
    ELSE [err |-> FALSE,
          url |-> urlunsplit(rscheme, b.netloc, MergedPath(BaseDir(b.path), r.path),
                             r.query, r.fragment)]

JoinParsed(base, ref, b, r) ==
    JoinParts(base, ref, b, r, IF r.scheme = <<>> THEN b.scheme ELSE r.scheme)

\* urljoin(base, ref) for http(s) bases.  Dot segments are not resolved: the
\* references of the model hold none.  err is TRUE where urljoin raises
\* ValueError (it parses both of its arguments).
urljoin(base, ref) == JoinParsed(base, ref, urlsplit(base), urlsplit(ref))

\* the printable ASCII characters (but backslash and backquote) in code-point order
AsciiOrder ==
    <<" ","!","\"","#","$","%","&","'","(",")","*","+",",","-",".","/",
      "0","1","2","3","4","5","6","7","8","9",":",";","<","=",">","?","@",
      "A","B","C","D","E","F","G","H","I","J","K","L","M",
      "N","O","P","Q","R","S","T","U","V","W","X","Y","Z",
      "[","]","^","_",
      "a","b","c","d","e","f","g","h","i","j","k","l","m",
      "n","o","p","q","r","s","t","u","v","w","x","y","z",
      "{","|","}","~">>

Ord(c) == CHOOSE i \in 1..Len(AsciiOrder) : AsciiOrder[i] = c

\* a < b as Python compares str
StrLess(a, b) ==
    \E k \in 1..(Len(a) + 1) :
        /\ k <= Len(b)
        /\ SubSeq(a, 1, k - 1) = SubSeq(b, 1, k - 1)
        /\ k = Len(a) + 1 \/ Ord(a[k]) < Ord(b[k])

\* sorted(S) for a set of strings
RECURSIVE SortedStrs(_)
SortedStrs(S) ==
    IF S = {} THEN <<>>
    ELSE LET lo == CHOOSE x \in S : \A y \in S \ {x} : StrLess(x, y)
         IN  <<lo>> \o SortedStrs(S \ {lo})

(***************************************************************************)
(* extract_urls_from_llms_txt.  The text is given by what the two          *)
(* re.findall calls find in it: the targets of its markdown links and its  *)
(* bare http(s) URLs.                                                      *)
(***************************************************************************)
\* base_prefix = base.path.rstrip("/") or "/"
BasePrefix(basePath) ==
    IF RStrip(basePath, {"/"}) = <<>> THEN <<"/">> ELSE RStrip(basePath, {"/"})

\* the host and path tests on a parsed candidate, and the fragment dropped
FilterParsed(parts, base, prefix) ==
    IF parts.err THEN [do |-> "skip", url |-> <<>>]
    ELSE IF parts.netloc # base.netloc THEN [do |-> "skip", url |-> <<>>]
    ELSE IF ~(parts.path = prefix \/ StartsWith(parts.path, prefix \o <<"/">>))
         THEN [do |-> "skip", url |-> <<>>]
    ELSE [do |-> "add",
          url |-> urlunsplit(parts.scheme, parts.netloc, parts.path, parts.query, <<>>)]

FilterUrl(u, base) == FilterParsed(urlsplit(u), base, BasePrefix(base.path))

\* a root-relative candidate, joined to the base URL outside the try block
ScanRooted(joined, base) ==
    IF joined.err THEN [do |-> "raise", url |-> <<>>] ELSE FilterUrl(joined.url, base)

\* u is the candidate with whitespace and trailing punctuation stripped
ScanStripped(u, base_url) ==
    IF StartsWith(u, <<"/">>) THEN ScanRooted(urljoin(base_url, u), urlsplit(base_url))
    ELSE IF ~(StartsWith(u, HTTP) \/ StartsWith(u, HTTPS))
         THEN [do |-> "skip", url |-> <<>>]
    ELSE FilterUrl(u, urlsplit(base_url))

\* what one candidate does to the scan: "skip", "add" (with url) or "raise"
ScanCandidate(rawc, base_url) ==
    ScanStripped(Strip(Strip(rawc, Whitespace), {".", ",", ";", ":"}), base_url)

extract_urls_from_llms_txt(text, base_url) ==
    LET cands == {text[i] : i \in 1..Len(text)}
        done  == {ScanCandidate(c, base_url) : c \in cands}
    IN  IF \E d \in done : d.do = "raise"
        THEN [raised |-> TRUE, urls |-> <<>>]
        ELSE [raised |-> FALSE,
              urls |-> SortedStrs({d.url : d \in {e \in done : e.do = "add"}})]

\* the site of the model: host h, documentation under /d
RootUrl == HTTPS \o <<"h">>
DocsUrl == RootUrl \o <<"/","d">>
BaseUrls == {RootUrl, DocsUrl}

\* link targets of a manifest
LinkTargets ==
    { <<"/","d","/","i">>,                            \* /d/i         root-relative
      DocsUrl \o <<"/","a","#","f",",">>,             \* https://h/d/a#f,
      DocsUrl,                                        \* https://h/d
      RootUrl \o <<"/","i">>,                         \* https://h/i
      DocsUrl \o <<"2","/","x">>,                     \* https://h/d2/x  sibling
      HTTPS \o <<"o","/","d","/","x">>,               \* https://o/d/x   other host
      <<"r","/","x">>,                                \* r/x          relative
      HTTPS \o <<"[","t","]",".","h","/","d","/","x">>,   \* https://[t].h/d/x
      <<"/","/","[","t","]","/","d">> }               \* //[t]/d

ManInit ==
    /\ SkipIdle
    /\ SideIdle
    /\ RunIdle
    /\ ConvIdle
    /\ UrlIdle
    /\ SelIdle
    /\ FetchIdle
    /\ DiscIdle
    /\ DownIdle
    /\ mpc = "start"
    /\ mbase \in BaseUrls
    /\ mtext \in StringsUpTo(LinkTargets, MaxLinks)
    /\ mout = [raised |-> FALSE, urls |-> <<>>]

\* extract_urls_from_llms_txt(text, base_url)
ExtractUrls ==
    /\ mpc = "start"
    /\ mout' = extract_urls_from_llms_txt(mtext, mbase)
    /\ mpc' = "done"
    /\ UNCHANGED <<mbase, mtext, notManVars>>

ManNext == ExtractUrls

SpecManifest == ManInit /\ [][ManNext]_vars

(***************************************************************************)
(* The site being crawled.  A response is what fetch hands back for a URL: *)
(* kind "None" (fetch failed), "status" (a status other than 200), "empty" *)
(* (an empty body) or "ok".  The body is given parsed: type says what it   *)
(* is and items holds its entries (the link targets of a manifest, the     *)
(* <loc> texts of a sitemap, the tag events of an HTML page, the text of a *)
(* page that is downloaded).                                               *)
(***************************************************************************)
NoResponse ==
    [kind |-> "None", type |-> "none", textlike |-> FALSE, items |-> <<>>, ctype |-> <<>>]
BadStatus ==
    [kind |-> "status", type |-> "none", textlike |-> TRUE, items |-> <<>>, ctype |-> <<>>]
EmptyBody ==
    [kind |-> "empty", type |-> "none", textlike |-> TRUE, items |-> <<>>, ctype |-> <<>>]
Body(type, items) ==
    [kind |-> "ok", type |-> type, textlike |-> TRUE, items |-> items, ctype |-> <<>>]
\* a body with a NUL byte and no text Content-Type
BinaryBody ==
    [kind |-> "ok", type |-> "opaque", textlike |-> FALSE, items |-> <<>>, ctype |-> <<>>]
\* a page: its Content-Type header and the text its body decodes to
Page(ctype, text) ==
    [kind |-> "ok", type |-> "page", textlike |-> TRUE, items |-> text, ctype |-> ctype]

\* not r or r.status != 200 or not r.body
Unusable(r) == r.kind \in {"None", "status", "empty"}

\* looks_textlike(r.headers, r.body)
looks_textlike(r) == r.textlike

\* ET.fromstring succeeds
ParsesAsXml(r) == r.type \in {"urlset", "sitemapindex"}

(***************************************************************************)
(* split_root_and_base and the candidate lists                             *)
(***************************************************************************)
RootOf(parts) == urlunsplit(parts.scheme, parts.netloc, <<>>, <<>>, <<>>)
BaseOf(parts) == RStrip(urlunsplit(parts.scheme, parts.netloc, parts.path, <<>>, <<>>), {"/"})

split_root_and_base(url) == [root |-> RootOf(urlsplit(url)), base |-> BaseOf(urlsplit(url))]

LlmsFull  == <<"l","l","m","s","-","f","u","l","l",".","t","x","t">>
LlmsTxt   == <<"l","l","m","s",".","t","x","t">>
LlmsSmall == <<"l","l","m","s","-","s","m","a","l","l",".","t","x","t">>
Variants == <<LlmsFull, LlmsTxt, LlmsSmall>>

Under(prefix, name) == prefix \o <<"/">> \o name

\* the candidates of try_llms_files, in order
LlmsCandidatesOf(rb) ==
    [i \in 1..3 |-> Under(rb.base, Variants[i])]
    \o [i \in 1..3 |-> Under(rb.root, Variants[i])]
    \o (IF Strip(urlsplit(rb.base).path, {"/"}) = <<>>
        THEN [i \in 1..3 |-> Under(rb.root \o <<"/","d","o","c","s">>, Variants[i])]
        ELSE <<>>)

LlmsCandidates(base_url) == LlmsCandidatesOf(split_root_and_base(base_url))

\* fname = u.rstrip("/").split("/")[-1]
LastSegmentOf(u) ==
    IF \E i \in 1..Len(u) : u[i] = "/"
    THEN From(u, Max({i \in 1..Len(u) : u[i] = "/"}) + 1)
    ELSE u

LastSegment(u) == LastSegmentOf(RStrip(u, {"/"}))

SitemapXml == <<"s","i","t","e","m","a","p",".","x","m","l">>
SitemapGz  == SitemapXml \o <<".","g","z">>

\* sitemap_candidates of fetch_sitemap_urls
SitemapCandidatesOf(rb) ==
    <<Under(rb.base, SitemapXml), Under(rb.root, SitemapXml),
      Under(rb.base, SitemapGz), Under(rb.root, SitemapGz)>>

SitemapCandidates(base_url) == SitemapCandidatesOf(split_root_and_base(base_url))

(***************************************************************************)
(* The filter that ends fetch_sitemap_urls                                 *)
(***************************************************************************)
\* the path test of the sitemap and sidebar filters: a plain startswith
PathAccepted(path, base_path) == base_path = <<>> \/ StartsWith(path, base_path)

\* what the filter does with one normalised URL, parsed as parts
FilterOneParsed(parts, baseParts) ==
    IF parts.err THEN "raise"
    ELSE IF parts.netloc # baseParts.netloc THEN "skip"
    ELSE IF ~PathAccepted(parts.path, RStrip(baseParts.path, {"/"})) THEN "skip"
    ELSE "keep"

FilterOne(u, baseParts) ==
    IF u = <<>> THEN "skip" ELSE FilterOneParsed(urlsplit(u), baseParts)

\* the filter loop over the normalised URLs, out being the list built so far
RECURSIVE FilterLoop(_, _, _)
FilterLoop(us, baseParts, out) ==
    IF us = <<>> THEN [raised |-> FALSE, urls |-> out]
    ELSE IF FilterOne(Head(us), baseParts) = "raise" THEN [raised |-> TRUE, urls |-> <<>>]
    ELSE IF FilterOne(Head(us), baseParts) = "keep"
            /\ \A i \in 1..Len(out) : out[i] # Head(us)
         THEN FilterLoop(Tail(us), baseParts, Append(out, Head(us)))
    ELSE FilterLoop(Tail(us), baseParts, out)

SitemapFilter(urls, base_url) ==
    FilterLoop([i \in 1..Len(urls) |-> normalize_url(urls[i])],
               urlsplit(split_root_and_base(base_url).base), <<>>)

NonEmpty(t) == t # <<>>

\* loc.text.strip() for every <url> whose <loc> exists and has text
LocTextsOf(texts) == [i \in 1..Len(texts) |-> Strip(texts[i], Whitespace)]

LocTexts(items) == LocTextsOf(SelectSeq(items, NonEmpty))

(***************************************************************************)
(* SidebarLinkParser                                                       *)
(***************************************************************************)
IgnoredTags == {"script", "style", "noscript"}

Keywords ==
    { <<"s","i","d","e","b","a","r">>, <<"m","e","n","u">>, <<"n","a","v">>,
      <<"t","o","c">>, <<"d","o","c","s">>,
      <<"n","a","v","i","g","a","t","i","o","n">> }

\* sub in s
Contains(s, sub) ==
    \E i \in 1..(Len(s) - Len(sub) + 1) : SubSeq(s, i, i + Len(sub) - 1) = sub

LowerStr(s) == [i \in 1..Len(s) |-> Lower(s[i])]

HasKeyword(blob) == \E k \in Keywords : Contains(blob, k)

\* one (tag, attrs) entry of the stack makes what is inside it a candidate
EntryIsCandidate(e) ==
    \/ e.tag \in {"nav", "aside"}
    \/ HasKeyword(LowerStr(e.cls) \o <<" ">> \o LowerStr(e.id))

_in_candidate(stack) == \E i \in 1..Len(stack) : EntryIsCandidate(stack[i])

Javascript == <<"j","a","v","a","s","c","r","i","p","t",":">>

\* the host and path tests on a resolved, normalised href
HrefAcceptParsed(parts, baseParts) ==
    IF parts.err THEN "raise"
    ELSE IF parts.netloc # baseParts.netloc THEN "skip"
    ELSE IF ~PathAccepted(parts.path, RStrip(baseParts.path, {"/"})) THEN "skip"
    ELSE "keep"

HrefAccept(u, baseParts) ==
    IF u = <<>> THEN [do |-> "skip", url |-> u]
    ELSE [do |-> HrefAcceptParsed(urlsplit(u), baseParts), url |-> u]

HrefJoined(joined, baseParts) ==
    IF joined.err THEN [do |-> "raise", url |-> <<>>]
    ELSE HrefAccept(normalize_url(joined.url), baseParts)

\* what an <a href> inside a candidate does: "skip", "keep" (with url) or "raise"
HrefStripped(href, rb) ==
    IF href = <<>> \/ StartsWith(href, <<"#">>) \/ StartsWith(LowerStr(href), Javascript)
    THEN [do |-> "skip", url |-> <<>>]
    ELSE IF StartsWith(href, <<"/">>)
         THEN HrefJoined(urljoin(rb.root, href), urlsplit(rb.base))
    ELSE HrefJoined(urljoin(rb.base \o <<"/">>, href), urlsplit(rb.base))

HandleHref(href, rb) == HrefStripped(Strip(href, Whitespace), rb)

\* the link step of handle_starttag, st being the parser after the push
CollectLink(st, link) ==
    IF link.do = "raise" THEN [st EXCEPT !.raised = TRUE]
    ELSE IF link.do = "keep" /\ \A i \in 1..Len(st.urls) : st.urls[i] # link.url
         THEN [st EXCEPT !.urls = Append(st.urls, link.url)]
    ELSE st

PushTag(st, e) == [st EXCEPT !.stack = Append(st.stack, [tag |-> e.tag, cls |-> e.cls, id |-> e.id])]

LinkAfterPush(st, e, rb) ==
    IF e.tag = "a" /\ _in_candidate(st.stack) THEN CollectLink(st, HandleHref(e.href, rb))
    ELSE st

handle_starttag(st, e, rb) ==
    IF e.tag \in IgnoredTags THEN [st EXCEPT !.ignore = st.ignore + 1]
    ELSE IF st.ignore > 0 THEN st
    ELSE LinkAfterPush(PushTag(st, e), e, rb)

handle_endtag(st, e) ==
    IF e.tag \in IgnoredTags
    THEN (IF st.ignore > 0 THEN [st EXCEPT !.ignore = st.ignore - 1] ELSE st)
    ELSE IF st.ignore > 0 THEN st
    ELSE IF st.stack # <<>> THEN [st EXCEPT !.stack = SubSeq(st.stack, 1, Len(st.stack) - 1)]
    ELSE st

HandleEvent(st, e, rb) ==
    IF e.ev = "start" THEN handle_starttag(st, e, rb) ELSE handle_endtag(st, e)

\* parser.feed(html): every event in turn, until one raises
RECURSIVE Feed(_, _, _)
Feed(st, events, rb) ==
    IF events = <<>> \/ st.raised THEN st
    ELSE Feed(HandleEvent(st, Head(events), rb), Tail(events), rb)

SidebarLinks(events, base_url) == Feed(NewParser, events, split_root_and_base(base_url))

(***************************************************************************)
(* discover_pages, with try_llms_files and fetch_sitemap_urls step by step *)
(***************************************************************************)
\* fetch(u) against the site; a URL the site does not serve fails
Fetch(u) == IF u \in DOMAIN web THEN web[u] ELSE NoResponse

FoundNames == {f.name : f \in found}

\* try_llms_files: the candidate was fetched before (u in seen): continue
TryLlmsSeen ==
    /\ dpc = "llms"
    /\ ci <= Len(LlmsCandidates(dbase))
    /\ LlmsCandidates(dbase)[ci] \in seenC
    /\ ci' = ci + 1
    /\ UNCHANGED <<dpc, dbase, web, seenC, found, fetched, sm, ret, notDiscVars>>

\* found after the response r for candidate u, a later hit replacing an earlier one
FoundAfterLastWins(u, r) ==
    IF Unusable(r) \/ ~looks_textlike(r)
    THEN found
    ELSE {f \in found : f.name # LastSegment(u)}
         \cup {[name |-> LastSegment(u), url |-> u, body |-> r]}

\* found after the response r for candidate u: the first hit per file name is kept
FoundAfter(u, r) ==
    IF Unusable(r) \/ ~looks_textlike(r) \/ LastSegment(u) \in FoundNames
    THEN found
    ELSE found \cup {[name |-> LastSegment(u), url |-> u, body |-> r]}

\* try_llms_files: fetch the next candidate
TryLlmsFetch ==
    /\ dpc = "llms"
    /\ ci <= Len(LlmsCandidates(dbase))
    /\ LlmsCandidates(dbase)[ci] \notin seenC
    /\ seenC' = seenC \cup {LlmsCandidates(dbase)[ci]}
    /\ fetched' = Append(fetched, LlmsCandidates(dbase)[ci])
    /\ found' = FoundAfter(LlmsCandidates(dbase)[ci], Fetch(LlmsCandidates(dbase)[ci]))
    /\ ci' = ci + 1
    /\ UNCHANGED <<dpc, dbase, web, sm, ret, notDiscVars>>

\* try_llms_files returns found
TryLlmsReturn ==
    /\ dpc = "llms"
    /\ ci > Len(LlmsCandidates(dbase))
    /\ dpc' = "manifest"
    /\ UNCHANGED <<dbase, web, ci, seenC, found, fetched, sm, ret, notDiscVars>>

\* return "ingen", [], llms_files
NoneResultDropsFiles(files) == [method |-> "ingen", pages |-> <<>>, files |-> {}]

NoneResult(files) == [method |-> "ingen", pages |-> <<>>, files |-> files]

HasManifest == \E f \in found : f.name = LlmsTxt
ManifestFile == CHOOSE f \in found : f.name = LlmsTxt

\* the scan of llms.txt, where it was found
ManifestUrls ==
    IF HasManifest THEN extract_urls_from_llms_txt(ManifestFile.body.items, dbase)
    ELSE [raised |-> FALSE, urls |-> <<>>]

\* if urls: the pages of the manifest are returned
ManifestWinsNever(urls) == FALSE

ManifestWins(urls) == urls # <<>>

\* llms.txt was found and lists pages: return them
ManifestReturn ==
    /\ dpc = "manifest"
    /\ ~ManifestUrls.raised
    /\ ManifestWins(ManifestUrls.urls)
    /\ ret' = [method |-> "llms.txt", pages |-> ManifestUrls.urls, files |-> found]
    /\ dpc' = "returned"
    /\ UNCHANGED <<dbase, web, ci, seenC, found, fetched, sm, notDiscVars>>

\* the scan raises ValueError, and so does discover_pages
ManifestRaise ==
    /\ dpc = "manifest"
    /\ ManifestUrls.raised
    /\ dpc' = "raised"
    /\ UNCHANGED <<dbase, web, ci, seenC, found, fetched, sm, ret, notDiscVars>>

\* no llms.txt, or no page in it: go on to the sitemap
ManifestEmpty ==
    /\ dpc = "manifest"
    /\ ~ManifestUrls.raised
    /\ ~ManifestWins(ManifestUrls.urls)
    /\ dpc' = "sitemap"
    /\ UNCHANGED <<dbase, web, ci, seenC, found, fetched, sm, ret, notDiscVars>>

\* fetch_sitemap_urls: fetch the next candidate; the first usable body is taken
SitemapCandidate ==
    /\ dpc = "sitemap"
    /\ sm.i <= Len(SitemapCandidates(dbase))
    /\ fetched' = Append(fetched, SitemapCandidates(dbase)[sm.i])
    /\ IF Unusable(Fetch(SitemapCandidates(dbase)[sm.i]))
       THEN sm' = [sm EXCEPT !.i = sm.i + 1] /\ dpc' = dpc
       ELSE sm' = [sm EXCEPT !.xml = <<Fetch(SitemapCandidates(dbase)[sm.i])>>]
            /\ dpc' = "sm_parse"
    /\ UNCHANGED <<dbase, web, ci, seenC, found, ret, notDiscVars>>

\* no candidate gave a body: return []
SitemapNone ==
    /\ dpc = "sitemap"
    /\ sm.i > Len(SitemapCandidates(dbase))
    /\ dpc' = "sm_done"
    /\ UNCHANGED <<dbase, web, ci, seenC, found, fetched, sm, ret, notDiscVars>>

\* ET.fromstring fails on the body taken: return []
SitemapMalformed ==
    /\ dpc = "sm_parse"
    /\ ~ParsesAsXml(sm.xml[1])
    /\ dpc' = "sm_done"
    /\ UNCHANGED <<dbase, web, ci, seenC, found, fetched, sm, ret, notDiscVars>>

\* the root element is a urlset: collect its <url><loc> texts
SitemapUrlset ==
    /\ dpc = "sm_parse"
    /\ sm.xml[1].type = "urlset"
    /\ sm' = [sm EXCEPT !.urls = LocTexts(sm.xml[1].items)]
    /\ dpc' = "sm_filter"
    /\ UNCHANGED <<dbase, web, ci, seenC, found, fetched, ret, notDiscVars>>

\* the root element is a sitemapindex: its <sitemap> entries are the children
SitemapIndex ==
    /\ dpc = "sm_parse"
    /\ sm.xml[1].type = "sitemapindex"
    /\ sm' = [sm EXCEPT !.kids = [i \in 1..Len(sm.xml[1].items) |->
                                     Strip(sm.xml[1].items[i], Whitespace)]]
    /\ dpc' = "sm_children"
    /\ UNCHANGED <<dbase, web, ci, seenC, found, fetched, ret, notDiscVars>>

\* a <sitemap> entry without a loc: continue
SitemapChildNoLoc ==
    /\ dpc = "sm_children"
    /\ sm.k <= Len(sm.kids)
    /\ sm.kids[sm.k] = <<>>
    /\ sm' = [sm EXCEPT !.k = sm.k + 1]
    /\ UNCHANGED <<dpc, dbase, web, ci, seenC, found, fetched, ret, notDiscVars>>

\* a child whose <sitemap> entries are read as if they were pages
ChildUrlsFollowingIndex(r) ==
    IF Unusable(r) \/ ~ParsesAsXml(r) THEN <<>> ELSE LocTexts(r.items)

\* the <url><loc> texts a fetched child adds; its own <sitemap> entries add none
ChildUrls(r) ==
    IF Unusable(r) \/ ~ParsesAsXml(r) THEN <<>>
    ELSE IF r.type = "urlset" THEN LocTexts(r.items)
    ELSE <<>>

\* fetch one child sitemap and collect its URLs
SitemapChild ==
    /\ dpc = "sm_children"
    /\ sm.k <= Len(sm.kids)
    /\ sm.kids[sm.k] # <<>>
    /\ fetched' = Append(fetched, sm.kids[sm.k])
    /\ sm' = [sm EXCEPT !.k = sm.k + 1,
                        !.got = Append(sm.got, Fetch(sm.kids[sm.k])),
                        !.urls = sm.urls \o ChildUrls(Fetch(sm.kids[sm.k]))]
    /\ UNCHANGED <<dpc, dbase, web, ci, seenC, found, ret, notDiscVars>>

\* every child was visited
SitemapChildrenDone ==
    /\ dpc = "sm_children"
    /\ sm.k > Len(sm.kids)
    /\ dpc' = "sm_filter"
    /\ UNCHANGED <<dbase, web, ci, seenC, found, fetched, sm, ret, notDiscVars>>

\* the filter on host and dbase path, and the dedupe
SitemapFiltered ==
    /\ dpc = "sm_filter"
    /\ ~SitemapFilter(sm.urls, dbase).raised
    /\ sm' = [sm EXCEPT !.out = SitemapFilter(sm.urls, dbase).urls]
    /\ dpc' = "sm_done"
    /\ UNCHANGED <<dbase, web, ci, seenC, found, fetched, ret, notDiscVars>>

\* urlsplit raises ValueError inside the filter
SitemapFilterRaise ==
    /\ dpc = "sm_filter"
    /\ SitemapFilter(sm.urls, dbase).raised
    /\ dpc' = "raised"
    /\ UNCHANGED <<dbase, web, ci, seenC, found, fetched, sm, ret, notDiscVars>>

\* fetch_sitemap_urls returned pages: return them
SitemapReturn ==
    /\ dpc = "sm_done"
    /\ sm.out # <<>>
    /\ ret' = [method |-> "sitemap.xml", pages |-> sm.out, files |-> found]
    /\ dpc' = "returned"
    /\ UNCHANGED <<dbase, web, ci, seenC, found, fetched, sm, notDiscVars>>

\* fetch_sitemap_urls returned []: go on to the dbase page
SitemapEmpty ==
    /\ dpc = "sm_done"
    /\ sm.out = <<>>
    /\ dpc' = "nav"
    /\ UNCHANGED <<dbase, web, ci, seenC, found, fetched, sm, ret, notDiscVars>>

\* the links SidebarLinkParser collects from the dbase page
NavLinks ==
    IF Unusable(Fetch(dbase)) THEN NewParser
    ELSE SidebarLinks(Fetch(dbase).items, dbase)

\* fetch the dbase page and scrape its navigation; return what it gives
NavScrape ==
    /\ dpc = "nav"
    /\ ~NavLinks.raised
    /\ fetched' = Append(fetched, dbase)
    /\ ret' = IF NavLinks.urls # <<>>
              THEN [method |-> "sidebar/nav", pages |-> NavLinks.urls, files |-> found]
              ELSE NoneResult(found)
    /\ dpc' = "returned"
    /\ UNCHANGED <<dbase, web, ci, seenC, found, sm, notDiscVars>>

\* urljoin or urlsplit raises ValueError on an href
NavRaise ==
    /\ dpc = "nav"
    /\ NavLinks.raised
    /\ fetched' = Append(fetched, dbase)
    /\ dpc' = "raised"
    /\ UNCHANGED <<dbase, web, ci, seenC, found, sm, ret, notDiscVars>>

(***************************************************************************)
(* The sites discovery runs against                                        *)
(***************************************************************************)
PageP == DocsUrl \o <<"/","p">>                     \* https://h/d/p
PageQ == DocsUrl \o <<"/","q">>                     \* https://h/d/q
Sibling == DocsUrl \o <<"2","/","x">>               \* https://h/d2/x
OtherHost == HTTPS \o <<"o","/","d","/","p">>       \* https://o/d/p
Bracketed == HTTPS \o <<"[","t","]","/","d">>       \* https://[t]/d
Schemeless == <<" ","h","/","d","/","q"," ">>       \* " h/d/q "

ChildK1 == RootUrl \o <<"/","k","1">>
ChildK2 == RootUrl \o <<"/","k","2">>
GrandChild == RootUrl \o <<"/","g">>

Malformed == Body("malformed", <<>>)
Urlset(locs) == Body("urlset", locs)
SitemapIndexOf(kids) == Body("sitemapindex", kids)

Range(f) == {f[i] : i \in DOMAIN f}

\* the manifests a site may serve as llms.txt
Manifests ==
    { <<>>,
      << <<"/","d","/","i">> >>,
      << DocsUrl \o <<"/","a","#","f",",">>, <<"/","d","/","i">> >>,
      << <<"/","/","[","t","]","/","d">> >>,
      << Sibling >> }

LlmsFirst == {NoResponse, BadStatus, BinaryBody} \cup {Body("text", m) : m \in Manifests}
LlmsSecond == {NoResponse, Body("text", << <<"/","d","/","i">> >>), Body("text", << PageQ >>)}
LlmsFullChoices == {NoResponse, Body("text", <<>>)}

\* what the first sitemap candidate and the child sitemap k1 answer
SitemapChoices ==
    { [doc |-> NoResponse, kid |-> NoResponse],
      [doc |-> Urlset(<<PageP>>), kid |-> NoResponse],
      [doc |-> Urlset(<<Sibling>>), kid |-> NoResponse],
      [doc |-> Urlset(<<OtherHost>>), kid |-> NoResponse],
      [doc |-> Urlset(<<Bracketed>>), kid |-> NoResponse],
      [doc |-> Malformed, kid |-> NoResponse],
      [doc |-> SitemapIndexOf(<<ChildK1, <<>> >>), kid |-> Urlset(<<PageQ>>)] }

StartTag(tag, cls, href) == [ev |-> "start", tag |-> tag, cls |-> cls, id |-> <<>>, href |-> href]
EndTag(tag) == [ev |-> "end", tag |-> tag, cls |-> <<>>, id |-> <<>>, href |-> <<>>]

\* <tag class=cls><a href=href></a></tag>
LinkIn(tag, cls, href) ==
    <<StartTag(tag, cls, <<>>), StartTag("a", <<>>, href), EndTag("a"), EndTag(tag)>>

\* the base pages a site may serve
BasePages ==
    { LinkIn("nav", <<>>, <<"/","d","/","n">>),
      LinkIn("div", <<>>, <<"/","d","/","n">>),
      LinkIn("aside", <<>>, <<"/","d","2","/","x">>),
      LinkIn("div", <<"T","o","c">>, <<"/","/","[","t","]","/","d">>),
      LinkIn("nav", <<>>, OtherHost),
      LinkIn("ul", <<"m","e","n","u">>, <<"n"," ">>) }

BaseChoices == {NoResponse} \cup {Body("html", h) : h \in BasePages}

DiscUrls(b) ==
    Range(LlmsCandidates(b)) \cup Range(SitemapCandidates(b)) \cup {ChildK1, b}

\* the site with the given answers; every other URL fails
DiscSite(b, la, lb, lf, smc, page) ==
    [u \in DiscUrls(b) |->
        IF u = LlmsCandidates(b)[2] THEN la
        ELSE IF u = LlmsCandidates(b)[Len(LlmsCandidates(b)) - 1] THEN lb
        ELSE IF u = LlmsCandidates(b)[1] THEN lf
        ELSE IF u = SitemapCandidates(b)[1] THEN smc.doc
        ELSE IF u = ChildK1 THEN smc.kid
        ELSE IF u = b THEN page
        ELSE NoResponse]

DiscInit ==
    /\ SkipIdle
    /\ SideIdle
    /\ RunIdle
    /\ ConvIdle
    /\ UrlIdle
    /\ SelIdle
    /\ FetchIdle
    /\ ManIdle
    /\ DownIdle
    /\ dpc = "llms"
    /\ dbase \in BaseUrls
    /\ \E la \in LlmsFirst, lb \in LlmsSecond, lf \in LlmsFullChoices,
          smc \in SitemapChoices, page \in BaseChoices :
            web = DiscSite(dbase, la, lb, lf, smc, page)
    /\ ci = 1
    /\ seenC = {}
    /\ found = {}
    /\ fetched = <<>>
    /\ sm = NoSitemap
    /\ ret = NoReturn

DiscNext ==
    \/ TryLlmsSeen
    \/ TryLlmsFetch
    \/ TryLlmsReturn
    \/ ManifestReturn
    \/ ManifestRaise
    \/ ManifestEmpty
    \/ SitemapCandidate
    \/ SitemapNone
    \/ SitemapMalformed
    \/ SitemapUrlset
    \/ SitemapIndex
    \/ SitemapChildNoLoc
    \/ SitemapChild
    \/ SitemapChildrenDone
    \/ SitemapFiltered
    \/ SitemapFilterRaise
    \/ SitemapReturn
    \/ SitemapEmpty
    \/ NavScrape
    \/ NavRaise

SpecDiscover == DiscInit /\ [][DiscNext]_vars

(***************************************************************************)
(* fetch_sitemap_urls on its own, over sitemaps of every shape             *)
(***************************************************************************)
LocChoices == {<<>>, PageP, Sibling, OtherHost, Bracketed, Schemeless}
KidChoices == {<<>>, ChildK1, ChildK2}

ChildResponses ==
    { NoResponse, Malformed, Urlset(<<PageP>>), Urlset(<<PageQ, PageP>>),
      SitemapIndexOf(<<GrandChild>>) }

UnusableResponses == {NoResponse, BadStatus, EmptyBody}

\* the index of the first candidate equal to u
FirstAt(cands, u) == Min({i \in 1..Len(cands) : cands[i] = u})

\* the candidates before position p answer early, the one at p answers doc,
\* those after it answer late
SitemapSite(b, p, early, doc, late, k1, k2) ==
    [u \in Range(SitemapCandidates(b)) \cup {ChildK1, ChildK2, GrandChild} |->
        IF u = ChildK1 THEN k1
        ELSE IF u = ChildK2 THEN k2
        ELSE IF u = GrandChild THEN Urlset(<<PageP>>)
        ELSE IF FirstAt(SitemapCandidates(b), u) < p THEN early
        ELSE IF FirstAt(SitemapCandidates(b), u) = p THEN doc
        ELSE late]

SitemapInit ==
    /\ SkipIdle
    /\ SideIdle
    /\ RunIdle
    /\ ConvIdle
    /\ UrlIdle
    /\ SelIdle
    /\ FetchIdle
    /\ ManIdle
    /\ DownIdle
    /\ dpc = "sitemap"
    /\ dbase \in BaseUrls
    /\ \/ \E p \in 1..4, early \in UnusableResponses,
             doc \in {Malformed, EmptyBody}
                     \cup {Urlset(l) : l \in StringsUpTo(LocChoices, MaxLocs)},
             late \in {NoResponse, Urlset(<<PageQ>>)} :
                web = SitemapSite(dbase, p, early, doc, late, NoResponse, NoResponse)
       \/ \E p \in 1..2, kids \in StringsUpTo(KidChoices, MaxChildren),
             k1 \in ChildResponses, k2 \in ChildResponses :
                web = SitemapSite(dbase, p, NoResponse, SitemapIndexOf(kids),
                                  NoResponse, k1, k2)
    /\ ci = 1
    /\ seenC = {}
    /\ found = {}
    /\ fetched = <<>>
    /\ sm = NoSitemap
    /\ ret = NoReturn

SitemapNext ==
    \/ SitemapCandidate
    \/ SitemapNone
    \/ SitemapMalformed
    \/ SitemapUrlset
    \/ SitemapIndex
    \/ SitemapChildNoLoc
    \/ SitemapChild
    \/ SitemapChildrenDone
    \/ SitemapFiltered
    \/ SitemapFilterRaise

SpecSitemap == SitemapInit /\ [][SitemapNext]_vars

(***************************************************************************)
(* download_pages                                                          *)
(***************************************************************************)
TextHtml == <<"t","e","x","t","/","h","t","m","l">>
TextMarkdown == <<"t","e","x","t","/","m","a","r","k","d","o","w","n">>
TextPlain == <<"t","e","x","t","/","p","l","a","i","n">>
ApplicationJson == <<"a","p","p","l","i","c","a","t","i","o","n","/","j","s","o","n">>
ApplicationPdf == <<"a","p","p","l","i","c","a","t","i","o","n","/","p","d","f">>

ExtHtml == <<".","h","t","m","l">>
ExtMd == <<".","m","d">>
ExtTxt == <<".","t","x","t">>
ExtJson == <<".","j","s","o","n">>

\* the extension of the raw file, from the lower-cased Content-Type
RawExt(ctype) ==
    IF Contains(ctype, TextMarkdown) THEN ExtMd
    ELSE IF Contains(ctype, TextPlain) THEN ExtTxt
    ELSE IF Contains(ctype, ApplicationJson) THEN ExtJson
    ELSE ExtHtml

\* raw_dir / f"{slug}{ext}" and md_dir / f"{slug}.md", below out_dir
RawPath(u, ctype) == <<"r","a","w","/">> \o url_to_page_slug(u) \o RawExt(ctype)
MdPath(u) == <<"m","d","/">> \o url_to_page_slug(u) \o ExtMd

\* the text a page is left as when it is not converted
WithNewline(text) ==
    IF text # <<>> /\ text[Len(text)] = "\n" THEN text ELSE Append(text, "\n")

\* the converted body: which conversion is applied, and the text it is applied to
MdBody(ctype, text) ==
    IF Contains(ctype, TextHtml) \/ RawExt(ctype) = ExtHtml
    THEN [conv |-> "html_to_markdownish", text |-> text]
    ELSE [conv |-> "text", text |-> WithNewline(text)]

\* the converted file: the two header lines naming the URL, then the body
MdFile(u, body) == [url |-> u, conv |-> body.conv, text |-> body.text]
RawFile(u, r) == [url |-> u, conv |-> "raw", text |-> r.items]

Written(path, content) ==
    [q \in DOMAIN disk \cup {path} |-> IF q = path THEN content ELSE disk[q]]

FetchEvent(u) == [ev |-> "fetch", at |-> u]
SaveEvent(path) == [ev |-> "save", at |-> path]
SleepEvent == [ev |-> "sleep", at |-> <<>>]

IsSave(e) == e.ev = "save"

\* the next save is the one that raises
SaveRaises == failAt = Len(SelectSeq(dlog, IsSave)) + 1

\* urls as they are, with no limit applied
TakeAll(s, n) == s

\* urls[:max_pages]
Take(s, n) == SubSeq(s, 1, IF n < Len(s) THEN n ELSE Len(s))

\* the loop index after a failed fetch when the loop is left instead
BreakAfterFailure(i, n) == n + 1

\* the loop index after a failed fetch: continue with the next URL
ContinueAfterFailure(i, n) == i + 1

\* urls = urls[:max_pages], and the two directories
DownloadStart ==
    /\ wpc = "start"
    /\ durls' = Take(dsel, max_pages)
    /\ wpc' = "top"
    /\ UNCHANGED <<dsel, max_pages, failAt, di, dlog, disk, md_paths, fetched, notDownVars>>

\* the fetch of the page fails: continue
PageFetchFails ==
    /\ wpc = "top"
    /\ di <= Len(durls)
    /\ Unusable(Fetch(durls[di]))
    /\ fetched' = Append(fetched, durls[di])
    /\ dlog' = Append(dlog, FetchEvent(durls[di]))
    /\ di' = ContinueAfterFailure(di, Len(durls))
    /\ UNCHANGED <<wpc, dsel, max_pages, failAt, durls, disk, md_paths, notDownVars>>

\* the page is fetched
PageFetched ==
    /\ wpc = "top"
    /\ di <= Len(durls)
    /\ ~Unusable(Fetch(durls[di]))
    /\ fetched' = Append(fetched, durls[di])
    /\ dlog' = Append(dlog, FetchEvent(durls[di]))
    /\ wpc' = "save_raw"
    /\ UNCHANGED <<dsel, max_pages, failAt, durls, di, disk, md_paths, notDownVars>>

\* save_bytes(raw_path, r.body)
SaveRaw ==
    /\ wpc = "save_raw"
    /\ ~SaveRaises
    /\ disk' = Written(RawPath(durls[di], LowerStr(Fetch(durls[di]).ctype)),
                       RawFile(durls[di], Fetch(durls[di])))
    /\ dlog' = Append(dlog, SaveEvent(RawPath(durls[di], LowerStr(Fetch(durls[di]).ctype))))
    /\ wpc' = "save_md"
    /\ UNCHANGED <<dsel, max_pages, failAt, durls, di, md_paths, fetched, notDownVars>>

\* save_text(md_path, ...), md_paths.append(md_path)
SaveMd ==
    /\ wpc = "save_md"
    /\ ~SaveRaises
    /\ disk' = Written(MdPath(durls[di]),
                       MdFile(durls[di], MdBody(LowerStr(Fetch(durls[di]).ctype),
                                                Fetch(durls[di]).items)))
    /\ dlog' = Append(dlog, SaveEvent(MdPath(durls[di])))
    /\ md_paths' = Append(md_paths, MdPath(durls[di]))
    /\ wpc' = "sleep"
    /\ UNCHANGED <<dsel, max_pages, failAt, durls, di, fetched, notDownVars>>

\* write_bytes or write_text raises OSError, and so does download_pages
SaveFails ==
    /\ wpc \in {"save_raw", "save_md"}
    /\ SaveRaises
    /\ wpc' = "raised"
    /\ UNCHANGED <<dsel, max_pages, failAt, durls, di, dlog, disk, md_paths, fetched,
                   notDownVars>>

\* time.sleep(delay)
PageSleep ==
    /\ wpc = "sleep"
    /\ dlog' = Append(dlog, SleepEvent)
    /\ di' = di + 1
    /\ wpc' = "top"
    /\ UNCHANGED <<dsel, max_pages, failAt, durls, disk, md_paths, fetched, notDownVars>>

\* return md_paths
DownloadReturn ==
    /\ wpc = "top"
    /\ di > Len(durls)
    /\ wpc' = "returned"
    /\ UNCHANGED <<dsel, max_pages, failAt, durls, di, dlog, disk, md_paths, fetched,
                   notDownVars>>

PageA == DocsUrl \o <<"/","a">>                     \* https://h/d/a
PageB == DocsUrl \o <<"/","b">>                     \* https://h/d/b
PageAQuery == PageA \o <<"?","v">>                  \* https://h/d/a?v
PageUrls == {PageA, PageB, PageAQuery}

ResponsesA ==
    { NoResponse, BadStatus, EmptyBody,
      Page(TextHtml, <<"x">>),
      Page(<<"T","e","x","t","/","M","a","r","k","d","o","w","n",";">>, <<"x","\n">>),
      Page(ApplicationPdf, <<"x">>) }
ResponsesB == {NoResponse, Page(TextPlain, <<"y">>)}
ResponsesAQuery == {Page(ApplicationJson, <<"z">>)}

PageSite(ra, rb, rq) ==
    [u \in PageUrls |-> IF u = PageA THEN ra ELSE IF u = PageB THEN rb ELSE rq]

DownInit ==
    /\ SkipIdle
    /\ SideIdle
    /\ RunIdle
    /\ ConvIdle
    /\ UrlIdle
    /\ SelIdle
    /\ FetchIdle
    /\ ManIdle
    /\ dpc = "idle"
    /\ dbase = <<>>
    /\ \E ra \in ResponsesA, rb \in ResponsesB, rq \in ResponsesAQuery :
            web = PageSite(ra, rb, rq)
    /\ ci = 1
    /\ seenC = {}
    /\ found = {}
    /\ fetched = <<>>
    /\ sm = NoSitemap
    /\ ret = NoReturn
    /\ wpc = "start"
    /\ dsel \in StringsUpTo(PageUrls, MaxUrls)
    /\ max_pages \in (MaxUrls - 1)..MaxUrls
    /\ failAt \in 0..3
    /\ durls = <<>>
    /\ di = 1
    /\ dlog = <<>>
    /\ disk = <<>>
    /\ md_paths = <<>>

DownNext ==
    \/ DownloadStart
    \/ PageFetchFails
    \/ PageFetched
    \/ SaveRaw
    \/ SaveMd
    \/ SaveFails
    \/ PageSleep
    \/ DownloadReturn

SpecDownload == DownInit /\ [][DownNext]_vars

(***************************************************************************)
(* The markdown-ish converter: MarkdownishParser and html_to_markdownish.  *)
(* A document is the sequence of its pieces: start tags, end tags (names   *)
(* in lower case, no attributes) and the markup-free text between them.    *)
(* HTMLParser.feed reports one event per tag and one text chunk per run of *)
(* text.  _pending_heading is 0 where the code has None.                   *)
(***************************************************************************)
MaxEvents == 4       \* longest event sequence of a document
MaxText == 4         \* longest plain-text document

StartEv(tag) == [ev |-> "start", tag |-> tag, data |-> <<>>]
EndEv(tag) == [ev |-> "end", tag |-> tag, data |-> <<>>]
DataEv(data) == [ev |-> "data", tag |-> <<>>, data |-> data]

\* tag names
TagScript == <<"s","c","r","i","p","t">>
TagStyle == <<"s","t","y","l","e">>
TagNoscript == <<"n","o","s","c","r","i","p","t">>
TagP == <<"p">>
TagDiv == <<"d","i","v">>
TagSection == <<"s","e","c","t","i","o","n">>
TagArticle == <<"a","r","t","i","c","l","e">>
TagHeader == <<"h","e","a","d","e","r">>
TagTable == <<"t","a","b","l","e">>
TagTr == <<"t","r">>
TagUl == <<"u","l">>
TagOl == <<"o","l">>
TagLi == <<"l","i">>
TagH1 == <<"h","1">>
TagH2 == <<"h","2">>
TagH3 == <<"h","3">>
TagH4 == <<"h","4">>
TagH5 == <<"h","5">>
TagH6 == <<"h","6">>
TagPre == <<"p","r","e">>
TagCode == <<"c","o","d","e">>
TagBr == <<"b","r">>
TagB == <<"b">>
TagNav == <<"n","a","v">>
TagAside == <<"a","s","i","d","e">>
TagFooter == <<"f","o","o","t","e","r">>
TagMain == <<"m","a","i","n">>

IGNORE_TAGS == {TagScript, TagStyle, TagNoscript}
BlockTags == {TagP, TagDiv, TagSection, TagArticle, TagHeader}
TableTags == {TagTable, TagTr}
ListTags == {TagUl, TagOl}
HeadingTags == {TagH1, TagH2, TagH3, TagH4, TagH5, TagH6}

\* int(tag[1])
HeadingLevel(tag) ==
    CASE tag = TagH1 -> 1 [] tag = TagH2 -> 2 [] tag = TagH3 -> 3
      [] tag = TagH4 -> 4 [] tag = TagH5 -> 5 [] OTHER -> 6

\* the character U+0060, which a string of this language cannot hold
Backquote == "<U+0060>"
Fence == <<Backquote, Backquote, Backquote>>

Emit(st, chunk) == [st EXCEPT !.out = Append(st.out, chunk)]

md_handle_starttag(st, tag) ==
    IF tag \in IGNORE_TAGS THEN [st EXCEPT !._ignore_depth = st._ignore_depth + 1]
    ELSE IF st._ignore_depth > 0 THEN st
    ELSE IF tag \in BlockTags \cup TableTags THEN Emit(st, <<"\n","\n">>)
    ELSE IF tag = TagBr THEN Emit(st, <<"\n">>)
    ELSE IF tag \in ListTags THEN Emit(st, <<"\n","\n">>)
    ELSE IF tag = TagLi
         THEN [Emit(st, <<"\n","-"," ">>) EXCEPT !._li_prefix_pending = TRUE]
    ELSE IF tag \in HeadingTags
         THEN [Emit(st, <<"\n","\n">>) EXCEPT !._pending_heading = HeadingLevel(tag)]
    ELSE IF tag = TagPre
         THEN [Emit(st, <<"\n","\n">> \o Fence \o <<"t","e","x","t","\n">>)
                  EXCEPT !._in_pre = TRUE]
    ELSE IF tag = TagCode /\ ~st._in_pre
         THEN [Emit(st, <<Backquote>>) EXCEPT !._in_code_inline = TRUE]
    ELSE st

md_handle_endtag(st, tag) ==
    IF tag \in IGNORE_TAGS
    THEN IF st._ignore_depth > 0
         THEN [st EXCEPT !._ignore_depth = st._ignore_depth - 1]
         ELSE st
    ELSE IF st._ignore_depth > 0 THEN st
    ELSE IF tag \in BlockTags THEN Emit(st, <<"\n","\n">>)
    ELSE IF tag \in HeadingTags
         THEN [Emit(st, <<"\n","\n">>) EXCEPT !._pending_heading = 0]
    ELSE IF tag = TagPre
         THEN [Emit(st, <<"\n">> \o Fence \o <<"\n","\n">>) EXCEPT !._in_pre = FALSE]
    ELSE IF tag = TagCode
         THEN IF st._in_code_inline
              THEN [Emit(st, <<Backquote>>) EXCEPT !._in_code_inline = FALSE]
              ELSE st
    ELSE IF tag = TagLi THEN Emit(st, <<"\n">>)
    ELSE st

\* re.sub(r"\s+", " ", data)
RECURSIVE CollapseFrom(_, _, _)
CollapseFrom(s, i, out) ==
    IF i > Len(s) THEN out
    ELSE IF s[i] \notin Whitespace THEN CollapseFrom(s, i + 1, Append(out, s[i]))
    ELSE IF i > 1 /\ s[i - 1] \in Whitespace THEN CollapseFrom(s, i + 1, out)
    ELSE CollapseFrom(s, i + 1, Append(out, " "))

\* the text chunk kept as it came, its whitespace not collapsed
KeepWhitespace(s) == s

CollapseWhitespace(s) == CollapseFrom(s, 1, <<>>)

\* "#" * max(1, min(6, self._pending_heading)), and the space after it
HeadingPrefix(level) == [i \in 1..Max({1, Min({6, level})}) |-> "#"] \o <<" ">>

\* the prefix is written unless the last chunk of out starts with it
PrefixWanted(st) ==
    /\ st._pending_heading # 0
    /\ ~st._in_pre
    /\ ~(st.out # <<>>
         /\ StartsWith(st.out[Len(st.out)], HeadingPrefix(st._pending_heading)))

WithPrefix(st) ==
    IF PrefixWanted(st) THEN Emit(st, HeadingPrefix(st._pending_heading)) ELSE st

\* the chunk appended for the text, after the prefix
TextAfterPrefix(st, data) ==
    IF st._in_pre THEN Emit(st, data)
    ELSE IF st._li_prefix_pending
         THEN [Emit(st, LStrip(CollapseWhitespace(data), Whitespace))
                  EXCEPT !._li_prefix_pending = FALSE]
    ELSE Emit(st, CollapseWhitespace(data))

handle_data(st, data) ==
    IF st._ignore_depth > 0 \/ data = <<>> THEN st
    ELSE TextAfterPrefix(WithPrefix(st), data)

\* "".join(self.out)
RECURSIVE Joined(_)
Joined(chunks) == IF chunks = <<>> THEN <<>> ELSE Head(chunks) \o Joined(Tail(chunks))

\* the first position from i on that holds neither a space nor a tab
RECURSIVE PastBlanks(_, _)
PastBlanks(s, i) ==
    IF i <= Len(s) /\ s[i] \in {" ", "\t"} THEN PastBlanks(s, i + 1) ELSE i

\* re.sub(r"[ \t]+\n", "\n", txt)
RECURSIVE TrimLineEnds(_, _, _)
TrimLineEnds(s, i, out) ==
    IF i > Len(s) THEN out
    ELSE IF s[i] \in {" ", "\t"}
            /\ PastBlanks(s, i) <= Len(s) /\ s[PastBlanks(s, i)] = "\n"
         THEN TrimLineEnds(s, PastBlanks(s, i), out)
    ELSE TrimLineEnds(s, i + 1, Append(out, s[i]))

\* re.sub(r"\n{4,}", "\n\n\n", txt)
RECURSIVE SquashNewlines(_, _, _)
SquashNewlines(s, i, out) ==
    IF i > Len(s) THEN out
    ELSE IF s[i] = "\n" /\ i > 3 /\ s[i - 1] = "\n" /\ s[i - 2] = "\n" /\ s[i - 3] = "\n"
         THEN SquashNewlines(s, i + 1, out)
    ELSE SquashNewlines(s, i + 1, Append(out, s[i]))

Cleaned(txt) == SquashNewlines(TrimLineEnds(txt, 1, <<>>), 1, <<>>)

get_text(st) == Append(Strip(Cleaned(Joined(st.out)), Whitespace), "\n")

\* the text of a piece: <tag>, </tag> or the text itself
PieceText(e) ==
    IF e.ev = "start" THEN <<"<">> \o e.tag \o <<">">>
    ELSE IF e.ev = "end" THEN <<"<", "/">> \o e.tag \o <<">">>
    ELSE e.data

PieceLen(e) == Len(PieceText(e))

RECURSIVE TextLen(_)
TextLen(doc) == IF doc = <<>> THEN 0 ELSE PieceLen(Head(doc)) + TextLen(Tail(doc))

\* the position of the first </tag> after position i, or 0
ClosingAfter(doc, i, tag) ==
    IF \E j \in (i + 1)..Len(doc) : doc[j] = EndEv(tag)
    THEN Min({j \in (i + 1)..Len(doc) : doc[j] = EndEv(tag)})
    ELSE 0

LayoutTags == {TagNav, TagAside, TagFooter}

\* re.sub(r"(?is)<(nav|aside|footer)\b.*?>.*?</\1>", " ", html)
RECURSIVE StripLayout(_, _, _)
StripLayout(doc, i, out) ==
    IF i > Len(doc) THEN out
    ELSE IF doc[i].ev = "start" /\ doc[i].tag \in LayoutTags
            /\ ClosingAfter(doc, i, doc[i].tag) # 0
         THEN StripLayout(doc, ClosingAfter(doc, i, doc[i].tag) + 1,
                          Append(out, DataEv(<<" ">>)))
    ELSE StripLayout(doc, i + 1, Append(out, doc[i]))

\* the groups re.finditer(rf"(?is)<{tag}\b[^>]*>(.*?)</{tag}>", html) yields
RECURSIVE ElementBodies(_, _, _, _)
ElementBodies(doc, tag, i, out) ==
    IF i > Len(doc) THEN out
    ELSE IF doc[i] = StartEv(tag) /\ ClosingAfter(doc, i, tag) # 0
         THEN ElementBodies(doc, tag, ClosingAfter(doc, i, tag) + 1,
                            Append(out, SubSeq(doc, i + 1, ClosingAfter(doc, i, tag) - 1)))
    ELSE ElementBodies(doc, tag, i + 1, out)

\* max(candidates, key=len): the first of the longest
Longest(candidates) ==
    candidates[Min({i \in 1..Len(candidates) :
                       \A j \in 1..Len(candidates) :
                           TextLen(candidates[j]) <= TextLen(candidates[i])})]

MainCandidates(doc) ==
    ElementBodies(doc, TagMain, 1, <<>>) \o ElementBodies(doc, TagArticle, 1, <<>>)

extract_main_html(doc) ==
    IF MainCandidates(doc) = <<>> THEN doc ELSE Longest(MainCandidates(doc))

\* html.parser: the content of these elements is text up to their closing tag
CDATA_CONTENT_ELEMENTS == {TagScript, TagStyle}

\* out with one more run of text: it joins the chunk before it, if any
WithText(out, text) ==
    IF text = <<>> THEN out
    ELSE IF out # <<>> /\ out[Len(out)].ev = "data"
         THEN [out EXCEPT ![Len(out)] = DataEv(out[Len(out)].data \o text)]
    ELSE Append(out, DataEv(text))

\* what HTMLParser.feed reports: the tags, and each run of text as one chunk;
\* cdata is the element whose content is being read as text, or <<>>
RECURSIVE Tokenize(_, _, _)
Tokenize(doc, cdata, out) ==
    IF doc = <<>> THEN out
    ELSE IF cdata # <<>>
         THEN IF Head(doc) = EndEv(cdata)
              THEN Tokenize(Tail(doc), <<>>, Append(out, Head(doc)))
              ELSE Tokenize(Tail(doc), cdata, WithText(out, PieceText(Head(doc))))
    ELSE IF Head(doc).ev = "data" THEN Tokenize(Tail(doc), <<>>, WithText(out, Head(doc).data))
    ELSE IF Head(doc).ev = "start" /\ Head(doc).tag \in CDATA_CONTENT_ELEMENTS
         THEN Tokenize(Tail(doc), Head(doc).tag, Append(out, Head(doc)))
    ELSE Tokenize(Tail(doc), <<>>, Append(out, Head(doc)))

\* the text handed to p.feed, as events
MainEvents(doc) == Tokenize(extract_main_html(StripLayout(doc, 1, <<>>)), <<>>, <<>>)

HandleMd(st, e) ==
    IF e.ev = "start" THEN md_handle_starttag(st, e.tag)
    ELSE IF e.ev = "end" THEN md_handle_endtag(st, e.tag)
    ELSE handle_data(st, e.data)

RECURSIVE FeedMd(_, _)
FeedMd(st, events) ==
    IF events = <<>> THEN st ELSE FeedMd(HandleMd(st, Head(events)), Tail(events))

html_to_markdownish(doc) == get_text(FeedMd(NewMarkdownishParser, MainEvents(doc)))

\* html_to_markdownish up to p.feed: the layout blocks go, the main part is taken
ConvPrepare ==
    /\ cpc = "start"
    /\ cdoc' = MainEvents(chtml)
    /\ cpc' = "feed"
    /\ UNCHANGED <<chtml, ck, cst, ctext, notConvVars>>

ConvStartTag ==
    /\ cpc = "feed"
    /\ ck <= Len(cdoc)
    /\ cdoc[ck].ev = "start"
    /\ cst' = md_handle_starttag(cst, cdoc[ck].tag)
    /\ ck' = ck + 1
    /\ UNCHANGED <<cpc, chtml, cdoc, ctext, notConvVars>>

ConvEndTag ==
    /\ cpc = "feed"
    /\ ck <= Len(cdoc)
    /\ cdoc[ck].ev = "end"
    /\ cst' = md_handle_endtag(cst, cdoc[ck].tag)
    /\ ck' = ck + 1
    /\ UNCHANGED <<cpc, chtml, cdoc, ctext, notConvVars>>

ConvData ==
    /\ cpc = "feed"
    /\ ck <= Len(cdoc)
    /\ cdoc[ck].ev = "data"
    /\ cst' = handle_data(cst, cdoc[ck].data)
    /\ ck' = ck + 1
    /\ UNCHANGED <<cpc, chtml, cdoc, ctext, notConvVars>>

\* return p.get_text()
ConvGetText ==
    /\ cpc = "feed"
    /\ ck > Len(cdoc)
    /\ ctext' = get_text(cst)
    /\ cpc' = "done"
    /\ UNCHANGED <<chtml, cdoc, ck, cst, notConvVars>>

\* the pieces free documents are made of
ConvPieces ==
    { StartEv(TagH2), EndEv(TagH2), StartEv(TagB), StartEv(TagScript), EndEv(TagScript),
      StartEv(TagPre), DataEv(<<"a">>), DataEv(<<"#","#"," ","b">>) }

\* documents with layout blocks and main parts
LayoutDocs ==
    { <<StartEv(TagNav), DataEv(<<"a">>), EndEv(TagNav), DataEv(<<"b">>)>>,
      <<DataEv(<<"a">>), StartEv(TagAside), DataEv(<<"b">>)>>,
      <<DataEv(<<"a">>), StartEv(TagMain), StartEv(TagH1), DataEv(<<"b">>), EndEv(TagH1),
        EndEv(TagMain), StartEv(TagFooter), EndEv(TagFooter)>>,
      <<StartEv(TagMain), DataEv(<<"a">>), EndEv(TagMain),
        StartEv(TagArticle), StartEv(TagLi), DataEv(<<" ","b">>), EndEv(TagArticle)>> }

PlainChars == {"a", "#", " ", "\n", "\t"}

\* a document without markup: its text, if any, is one piece
PlainDoc(text) == IF text = <<>> THEN <<>> ELSE <<DataEv(text)>>

ConvInit ==
    /\ SkipIdle
    /\ SideIdle
    /\ RunIdle
    /\ UrlIdle
    /\ SelIdle
    /\ FetchIdle
    /\ ManIdle
    /\ DiscIdle
    /\ DownIdle
    /\ cpc = "start"
    /\ \/ chtml \in StringsUpTo(ConvPieces, MaxEvents)
       \/ chtml \in LayoutDocs
       \/ \E t \in StringsUpTo(PlainChars, MaxText) : chtml = PlainDoc(t)
    /\ cdoc = <<>>
    /\ ck = 1
    /\ cst = NewMarkdownishParser
    /\ ctext = NoStr

ConvNext ==
    \/ ConvPrepare
    \/ ConvStartTag
    \/ ConvEndTag
    \/ ConvData
    \/ ConvGetText

SpecConv == ConvInit /\ [][ConvNext]_vars

(***************************************************************************)
(* The runs: main, run_for_url, run_for_url_auto, choose_action,           *)
(* write_llms_files and build_combined.  A run is the run of one target;   *)
(* discover_pages and download_pages run inside it as modelled above.  The *)
(* files the run itself writes are kept in outs, in the order written.     *)
(***************************************************************************)
MaxPrompts == 1      \* answers choose_action may reject before it gets a valid one
MaxTargets == 1      \* targets typed at the prompt of main

MAX_PAGES_DEFAULT == 250

CombinedMd == <<"c","o","m","b","i","n","e","d",".","m","d">>
CombinedLlmsFull == <<"c","o","m","b","i","n","e","d","_","_","l","l","m","s","-","f","u","l","l",".","t","x","t">>
MetaJson == <<"m","e","t","a",".","j","s","o","n">>
LlmsDir == <<"l","l","m","s","/">>
DocgrabPrefix == <<"d","o","c","g","r","a","b","_","_">>

\* the content of a file the run writes
NoMeta == [base_url |-> <<>>, discovery_method |-> "", downloaded_pages |-> 0,
           chosen_urls_count |-> 0]

OutFile(path, kind, parts, body, meta) ==
    [path |-> path, kind |-> kind, parts |-> parts, body |-> body, meta |-> meta]

\* save_bytes(llms_dir / name, fr.body)
LlmsFile(f) == OutFile(LlmsDir \o f.name, "manifest", <<>>, f.body, NoMeta)

\* llms_files.items(): the files in the order try_llms_files found them
RECURSIVE FoundInOrder(_, _)
FoundInOrder(files, cands) ==
    IF cands = <<>> THEN <<>>
    ELSE IF \E f \in files : f.url = Head(cands)
         THEN <<CHOOSE f \in files : f.url = Head(cands)>> \o FoundInOrder(files, Tail(cands))
    ELSE FoundInOrder(files, Tail(cands))

\* write_llms_files: nothing when the dict is empty, else one file per entry
write_llms_files(files, cands) ==
    [i \in 1..Len(FoundInOrder(files, cands)) |-> LlmsFile(FoundInOrder(files, cands)[i])]

\* "llms-full.txt" in llms_files
HasLlmsFull(files) == \E f \in files : f.name = LlmsFull

LlmsFullBody(files) == (CHOOSE f \in files : f.name = LlmsFull).body

\* build_combined: the title, then every file of md_paths as it is read back
build_combined(paths, files, title) ==
    OutFile(CombinedMd, "combined", [i \in 1..Len(paths) |-> files[paths[i]]],
            NoResponse, [NoMeta EXCEPT !.base_url = title])

\* meta.json (the time stamp left out)
MetaFile(base_url, method, paths, chosen) ==
    OutFile(MetaJson, "meta", <<>>, NoResponse,
            [base_url |-> base_url, discovery_method |-> method,
             downloaded_pages |-> Len(paths), chosen_urls_count |-> Len(chosen)])

\* an answer typed at the menu: the choice, and what is typed after "4" or "5"
Answer(choice, typed, pattern) == [choice |-> choice, sel |-> typed, pattern |-> pattern]

\* a pattern: one re.compile rejects, or a text of letters, which rx.search
\* finds where the URL contains it
BadPattern == [ok |-> FALSE, lit |-> <<"(">>]
Literal(text) == [ok |-> TRUE, lit |-> text]

\* [pages[i - 1] for i in idxs]
PagesAt(pages, idxs) == [i \in 1..Len(idxs) |-> pages[idxs[i]]]

\* a filter that keeps every page
MatchingAll(pages, lit) == pages

\* [u for u in pages if rx.search(u)]
RECURSIVE Matching(_, _)
Matching(pages, lit) ==
    IF pages = <<>> THEN <<>>
    ELSE IF Contains(Head(pages), lit) THEN <<Head(pages)>> \o Matching(Tail(pages), lit)
    ELSE Matching(Tail(pages), lit)

Chosen(action, urls) == [valid |-> TRUE, action |-> action, chosen |-> urls]
AskAgain == [valid |-> FALSE, action |-> "", chosen |-> <<>>]

\* one round of the loop of choose_action
choose_action(ans, base_url, pages) ==
    IF ans.choice = "1" THEN Chosen("start", <<base_url>>)
    ELSE IF ans.choice = "2"
         THEN Chosen("full_single", IF pages # <<>> THEN pages ELSE <<base_url>>)
    ELSE IF ans.choice = "3" /\ pages # <<>> THEN Chosen("all_pages", pages)
    ELSE IF ans.choice = "4" /\ pages # <<>>
         THEN IF parse_selection(Strip(ans.sel, Whitespace), Len(pages)) = <<>>
              THEN AskAgain
              ELSE Chosen("select_pages",
                          PagesAt(pages, parse_selection(Strip(ans.sel, Whitespace),
                                                         Len(pages))))
    ELSE IF ans.choice = "5" /\ pages # <<>>
         THEN IF ~ans.pattern.ok \/ Matching(pages, ans.pattern.lit) = <<>>
              THEN AskAgain
              ELSE Chosen("select_pages", Matching(pages, ans.pattern.lit))
    ELSE IF ans.choice = "0" THEN Chosen("skip", <<>>)
    ELSE AskAgain

\* the manifest is written instead of any page when it was found
NeverUsesManifest(hasFull) == FALSE

UsesManifest(hasFull) == hasFull

Manifest(action) ==
    [action |-> action, chosen |-> <<>>, max |-> 0, download |-> FALSE,
     combine |-> FALSE, meta |-> FALSE]

Download(action, chosen, max, combine, meta) ==
    [action |-> action, chosen |-> chosen, max |-> max, download |-> TRUE,
     combine |-> combine, meta |-> meta]

\* run_for_url after choose_action
InteractivePlan(c, hasFull) ==
    IF c.action = "skip" THEN [NoPlan EXCEPT !.action = "skip"]
    ELSE IF c.action = "full_single"
         THEN IF UsesManifest(hasFull) THEN Manifest("full_single")
              ELSE Download("full_single", c.chosen, MAX_PAGES_DEFAULT, TRUE, FALSE)
    ELSE Download(c.action, c.chosen, MAX_PAGES_DEFAULT, TRUE, TRUE)

\* run_for_url_auto after discover_pages
AutoPlan(mode, base_url, pages, hasFull) ==
    IF mode = "full"
    THEN IF UsesManifest(hasFull) THEN Manifest("full")
         ELSE IF pages # <<>> THEN Download("full", pages, MAX_PAGES_DEFAULT, TRUE, FALSE)
         ELSE Download("full", <<base_url>>, 1, FALSE, FALSE)
    ELSE IF mode = "all"
    THEN Download("all", IF pages # <<>> THEN pages ELSE <<base_url>>,
                  MAX_PAGES_DEFAULT, TRUE, FALSE)
    ELSE IF mode = "start" THEN Download("start", <<base_url>>, 1, FALSE, FALSE)
    ELSE [NoPlan EXCEPT !.action = mode]

\* [normalize_url(a) for a in sys.argv[1:] if normalize_url(a) and not a.startswith("--")]
RECURSIVE MainTargets(_)
MainTargets(args) ==
    IF args = <<>> THEN <<>>
    ELSE IF normalize_url(Head(args)) # <<>> /\ ~StartsWith(Head(args), <<"-","-">>)
         THEN <<normalize_url(Head(args))>> \o MainTargets(Tail(args))
    ELSE MainTargets(Tail(args))

FlagAuto == <<"-","-","a","u","t","o">>
FlagAll == <<"-","-","a","l","l">>
FlagStart == <<"-","-","s","t","a","r","t">>

InArgv(flag) == \E k \in 1..Len(rargs) : rargs[k] = flag

\* args of main
Targets == MainTargets(rargs)

\* the parts of the state no run touches
notRunParts == <<urlVars, selVars, fetchVars, manVars, convVars, sideVars, skipVars>>
Argv == <<rkind, rmode, rargs>>

\* main reads sys.argv: the flags, then the targets left after filtering
MainArgs ==
    /\ rpc = "main"
    /\ rkind' = IF InArgv(FlagAuto) /\ Targets # <<>> THEN "auto" ELSE "interactive"
    /\ rmode' = IF InArgv(FlagAll) THEN "all"
                ELSE IF InArgv(FlagStart) THEN "start" ELSE "full"
    /\ rpc' = IF Targets # <<>> THEN "loop" ELSE "prompt"
    /\ UNCHANGED <<rargs, ri, rraw, plan, prompts, siteDir, outs, status, results,
                   notRunVars>>

\* the first lines of run_for_url and run_for_url_auto on target u: nothing for
\* an empty target, else the site directory is made and discover_pages entered
RunStart(u) ==
    /\ rraw' = u
    /\ plan' = NoPlan
    /\ prompts' = 0
    /\ outs' = <<>>
    /\ ci' = 1
    /\ seenC' = {}
    /\ found' = {}
    /\ fetched' = <<>>
    /\ sm' = NoSitemap
    /\ ret' = NoReturn
    /\ wpc' = "idle"
    /\ dsel' = <<>>
    /\ max_pages' = 0
    /\ durls' = <<>>
    /\ di' = 1
    /\ dlog' = <<>>
    /\ disk' = <<>>
    /\ md_paths' = <<>>
    /\ IF normalize_url(u) = <<>>
       THEN /\ rpc' = "done"
            /\ siteDir' = NoStr
            /\ dbase' = <<>>
            /\ dpc' = "idle"
       ELSE IF urlsplit(normalize_url(u)).err
       THEN /\ rpc' = "raised"
            /\ siteDir' = NoStr
            /\ dbase' = normalize_url(u)
            /\ dpc' = "idle"
       ELSE /\ rpc' = "discover"
            /\ siteDir' = DocgrabPrefix \o slug_from_url(normalize_url(u))
            /\ dbase' = normalize_url(u)
            /\ dpc' = "llms"
    /\ UNCHANGED <<web, failAt, notRunParts>>

\* for u in args: the run of the next target
MainNext ==
    /\ rpc = "loop"
    /\ ri <= Len(Targets)
    /\ RunStart(Targets[ri])
    /\ UNCHANGED <<Argv, ri, status, results>>

\* every target was run: return 0
MainReturn ==
    /\ rpc = "loop"
    /\ ri > Len(Targets)
    /\ status' = <<0>>
    /\ rpc' = "exited"
    /\ UNCHANGED <<Argv, ri, rraw, plan, prompts, siteDir, outs, results, notRunVars>>

\* what may be typed at the prompt of main
PromptInputs == {<<>>, <<" ">>, <<"h","/","d","/">>}

\* a target is typed at the prompt: run_for_url(u)
MainPrompt ==
    /\ rpc = "prompt"
    /\ Len(results) < MaxTargets
    /\ \E typed \in PromptInputs :
          /\ normalize_url(typed) # <<>>
          /\ RunStart(normalize_url(typed))
    /\ UNCHANGED <<Argv, ri, status, results>>

\* an empty line or the end of the input: return 0
MainPromptEnd ==
    /\ rpc = "prompt"
    /\ \E typed \in PromptInputs : normalize_url(typed) = <<>>
    /\ status' = <<0>>
    /\ rpc' = "exited"
    /\ UNCHANGED <<Argv, ri, rraw, plan, prompts, siteDir, outs, results, notRunVars>>

IsOk(u) == ~Unusable(Fetch(u))

\* what main could know of a run that ended
RunSummary(ended) ==
    [target |-> rraw, ended |-> ended, kind |-> rkind, action |-> plan.action,
     dir |-> siteDir, fetches |-> Len(fetched),
     answered |-> Len(SelectSeq(fetched, IsOk)), pages |-> Len(md_paths),
     saved |-> DOMAIN disk, files |-> [k \in 1..Len(outs) |-> outs[k].path]]

\* run_for_url or run_for_url_auto returned: main goes on
RunReturn ==
    /\ rpc = "done"
    /\ results' = Append(results, RunSummary("returned"))
    /\ ri' = ri + 1
    /\ rpc' = IF Targets # <<>> THEN "loop" ELSE "prompt"
    /\ UNCHANGED <<Argv, rraw, plan, prompts, siteDir, outs, status, notRunVars>>

\* nothing catches what a run raises: the process ends with a traceback
MainRaised ==
    /\ rpc = "raised"
    /\ results' = Append(results, RunSummary("raised"))
    /\ status' = <<1>>
    /\ rpc' = "exited"
    /\ UNCHANGED <<Argv, ri, rraw, plan, prompts, siteDir, outs, notRunVars>>

\* discover_pages returned: write_llms_files(llms_files, site_dir)
RunWriteLlms ==
    /\ rpc = "discover"
    /\ dpc = "returned"
    /\ outs' = outs \o write_llms_files(ret.files, LlmsCandidates(dbase))
    /\ rpc' = IF rkind = "auto" THEN "mode" ELSE "choose"
    /\ UNCHANGED <<Argv, ri, rraw, plan, prompts, siteDir, status, results, notRunVars>>

\* discover_pages raised
RunDiscoverRaised ==
    /\ rpc = "discover"
    /\ dpc = "raised"
    /\ rpc' = "raised"
    /\ UNCHANGED <<Argv, ri, rraw, plan, prompts, siteDir, outs, status, results,
                   notRunVars>>

\* the answers typed at the menu of choose_action
Answers ==
    { Answer("1", <<>>, BadPattern), Answer("2", <<>>, BadPattern),
      Answer("3", <<>>, BadPattern), Answer("0", <<>>, BadPattern),
      Answer("9", <<>>, BadPattern), Answer("", <<>>, BadPattern),
      Answer("4", <<"2",","," ","1">>, BadPattern),
      Answer("4", <<"1">>, BadPattern),
      Answer("4", <<"x">>, BadPattern),
      Answer("5", <<>>, BadPattern),
      Answer("5", <<>>, Literal(<<"v">>)),
      Answer("5", <<>>, Literal(<<"z","z">>)) }

\* choose_action rejects the answer and asks again
RunPromptAgain ==
    /\ rpc = "choose"
    /\ prompts < MaxPrompts
    /\ \E ans \in Answers : ~choose_action(ans, dbase, ret.pages).valid
    /\ prompts' = prompts + 1
    /\ UNCHANGED <<Argv, rpc, ri, rraw, plan, siteDir, outs, status, results, notRunVars>>

\* choose_action returns an action and the chosen URLs
RunChoose ==
    /\ rpc = "choose"
    /\ \E ans \in Answers :
          /\ choose_action(ans, dbase, ret.pages).valid
          /\ plan' = InteractivePlan(choose_action(ans, dbase, ret.pages),
                                     HasLlmsFull(ret.files))
    /\ rpc' = "act"
    /\ UNCHANGED <<Argv, ri, rraw, prompts, siteDir, outs, status, results, notRunVars>>

\* run_for_url_auto: the mode decides
RunAuto ==
    /\ rpc = "mode"
    /\ plan' = AutoPlan(rmode, dbase, ret.pages, HasLlmsFull(ret.files))
    /\ rpc' = "act"
    /\ UNCHANGED <<Argv, ri, rraw, prompts, siteDir, outs, status, results, notRunVars>>

\* action == "skip": return
RunSkip ==
    /\ rpc = "act"
    /\ plan.action = "skip"
    /\ rpc' = "done"
    /\ UNCHANGED <<Argv, ri, rraw, plan, prompts, siteDir, outs, status, results,
                   notRunVars>>

\* save_bytes(site_dir / "combined__llms-full.txt", llms_files["llms-full.txt"].body)
RunSaveManifest ==
    /\ rpc = "act"
    /\ plan.action # "skip"
    /\ ~plan.download
    /\ outs' = Append(outs, OutFile(CombinedLlmsFull, "manifest", <<>>,
                                    LlmsFullBody(ret.files), NoMeta))
    /\ rpc' = "done"
    /\ UNCHANGED <<Argv, ri, rraw, plan, prompts, siteDir, status, results, notRunVars>>

\* download_pages(chosen, site_dir, max_pages) is entered
RunDownload ==
    /\ rpc = "act"
    /\ plan.download
    /\ dsel' = plan.chosen
    /\ max_pages' = plan.max
    /\ wpc' = "start"
    /\ rpc' = "download"
    /\ UNCHANGED <<Argv, ri, rraw, plan, prompts, siteDir, outs, status, results,
                   notRunParts, discVars, failAt, durls, di, dlog, disk, md_paths>>

\* download_pages raised
RunDownloadRaised ==
    /\ rpc = "download"
    /\ wpc = "raised"
    /\ rpc' = "raised"
    /\ UNCHANGED <<Argv, ri, rraw, plan, prompts, siteDir, outs, status, results,
                   notRunVars>>

\* build_combined(md_paths, site_dir / "combined.md", title=base_url)
RunCombine ==
    /\ rpc = "download"
    /\ wpc = "returned"
    /\ plan.combine
    /\ outs' = Append(outs, build_combined(md_paths, disk, dbase))
    /\ rpc' = IF plan.meta THEN "meta" ELSE "done"
    /\ UNCHANGED <<Argv, ri, rraw, plan, prompts, siteDir, status, results, notRunVars>>

\* only the start page was asked for: no combined document
RunStartPage ==
    /\ rpc = "download"
    /\ wpc = "returned"
    /\ ~plan.combine
    /\ rpc' = "done"
    /\ UNCHANGED <<Argv, ri, rraw, plan, prompts, siteDir, outs, status, results,
                   notRunVars>>

\* save_text(site_dir / "meta.json", ...)
RunMeta ==
    /\ rpc = "meta"
    /\ outs' = Append(outs, MetaFile(dbase, ret.method, md_paths, plan.chosen))
    /\ rpc' = "done"
    /\ UNCHANGED <<Argv, ri, rraw, plan, prompts, siteDir, status, results, notRunVars>>

(***************************************************************************)
(* The command lines and sites of the runs                                 *)
(***************************************************************************)
PageI == DocsUrl \o <<"/","i">>                     \* https://h/d/i
PageN == DocsUrl \o <<"/","n">>                     \* https://h/d/n
RunPages == {PageA, PageB, PageAQuery, PageI, PageN, PageQ}

NoLlms == NoResponse
NoSitemapDoc == [doc |-> NoResponse, kid |-> NoResponse]
Sitemap(doc) == [doc |-> doc, kid |-> NoResponse]

\* a discovery site that also serves the pages pg
RunSite(b, la, lb, lf, smc, page, pg) ==
    [u \in DiscUrls(b) \cup RunPages |->
        IF u \in DOMAIN pg THEN pg[u]
        ELSE IF u \in DiscUrls(b) THEN DiscSite(b, la, lb, lf, smc, page)[u]
        ELSE NoResponse]

HtmlX == Page(TextHtml, <<"x">>)
JsonZ == Page(ApplicationJson, <<"z">>)
PlainY == Page(TextPlain, <<"y">>)
NavPage == Body("html", LinkIn("nav", <<>>, <<"/","d","/","n">>))

Scenario(targets, site, k) == [targets |-> targets, web |-> site, failAt |-> k]

\* a site answering nothing at all
DeadSite(b) == RunSite(b, NoLlms, NoLlms, NoLlms, NoSitemapDoc, NoResponse, <<>>)

\* a site whose sitemap lists page a and page a?v
TwoPageSite ==
    RunSite(DocsUrl, NoLlms, NoLlms, NoLlms, Sitemap(Urlset(<<PageA, PageAQuery>>)),
            NavPage, (PageA :> HtmlX) @@ (PageAQuery :> JsonZ))

Scenarios ==
    << \* llms-full.txt and an llms.txt manifest listing /d/i
       Scenario(<<DocsUrl>>,
                RunSite(DocsUrl, Body("text", << <<"/","d","/","i">> >>), NoLlms,
                        Body("text", <<>>), NoSitemapDoc, NavPage, (PageI :> HtmlX)), 0),
       \* llms-full.txt alone
       Scenario(<<DocsUrl>>,
                RunSite(DocsUrl, NoLlms, NoLlms, Body("text", <<>>), NoSitemapDoc,
                        NoResponse, <<>>), 0),
       Scenario(<<DocsUrl>>, TwoPageSite, 0),
       \* the second save raises
       Scenario(<<DocsUrl>>, TwoPageSite, 2),
       \* a sitemap listing page a (fails), page b and page a?v
       Scenario(<<DocsUrl \o <<"/">> >>,
                RunSite(DocsUrl, NoLlms, NoLlms, NoLlms,
                        Sitemap(Urlset(<<PageA, PageB, PageAQuery>>)), NoResponse,
                        (PageB :> PlainY) @@ (PageAQuery :> JsonZ)), 0),
       Scenario(<<DocsUrl>>, DeadSite(DocsUrl), 0),
       \* two targets, the flag of an option in between
       Scenario(<<RootUrl, <<"-","-","x">>, <<"'","h","/","d","'">> >>, DeadSite(DocsUrl), 0),
       \* only the start page answers; its navigation links to /d/n
       Scenario(<<DocsUrl>>,
                RunSite(DocsUrl, NoLlms, NoLlms, NoLlms, NoSitemapDoc, NavPage,
                        (PageN :> HtmlX)), 0),
       \* a manifest, a sitemap and a navigation naming a host in brackets
       Scenario(<<DocsUrl>>,
                RunSite(DocsUrl, Body("text", << <<"/","/","[","t","]","/","d">> >>), NoLlms,
                        NoLlms, NoSitemapDoc, NoResponse, <<>>), 0),
       Scenario(<<DocsUrl>>,
                RunSite(DocsUrl, NoLlms, NoLlms, NoLlms, Sitemap(Urlset(<<Bracketed>>)),
                        NoResponse, <<>>), 0),
       Scenario(<<DocsUrl>>,
                RunSite(DocsUrl, NoLlms, NoLlms, NoLlms, Sitemap(Malformed),
                        Body("html", LinkIn("div", <<"T","o","c">>,
                                            <<"/","/","[","t","]","/","d">>)), <<>>), 0),
       \* a sitemap index with one child
       Scenario(<<DocsUrl>>,
                RunSite(DocsUrl, NoLlms, NoLlms, NoLlms,
                        [doc |-> SitemapIndexOf(<<ChildK1, <<>> >>),
                         kid |-> Urlset(<<PageQ>>)],
                        NoResponse, (PageQ :> HtmlX)), 0),
       \* a target that urlsplit rejects
       Scenario(<<Bracketed>>, DeadSite(DocsUrl), 0),
       \* no target on the command line
       Scenario(<<>>, TwoPageSite, 0) >>

FlagChoices == {<<>>, <<FlagAuto>>, <<FlagAuto, FlagAll>>, <<FlagStart, FlagAuto>>}

RunInit ==
    /\ SkipIdle
    /\ SideIdle
    /\ ConvIdle
    /\ UrlIdle
    /\ SelIdle
    /\ FetchIdle
    /\ ManIdle
    /\ rpc = "main"
    /\ rkind = ""
    /\ rmode = ""
    /\ ri = 1
    /\ rraw = <<>>
    /\ plan = NoPlan
    /\ prompts = 0
    /\ siteDir = NoStr
    /\ outs = <<>>
    /\ status = <<>>
    /\ results = <<>>
    /\ \E k \in 1..Len(Scenarios), flags \in FlagChoices :
          /\ rargs = flags \o Scenarios[k].targets
          /\ web = Scenarios[k].web
          /\ failAt = Scenarios[k].failAt
    /\ dpc = "idle"
    /\ dbase = <<>>
    /\ ci = 1
    /\ seenC = {}
    /\ found = {}
    /\ fetched = <<>>
    /\ sm = NoSitemap
    /\ ret = NoReturn
    /\ wpc = "idle"
    /\ dsel = <<>>
    /\ max_pages = 0
    /\ durls = <<>>
    /\ di = 1
    /\ dlog = <<>>
    /\ disk = <<>>
    /\ md_paths = <<>>

RunNext ==
    \/ MainArgs
    \/ MainNext
    \/ MainReturn
    \/ MainPrompt
    \/ MainPromptEnd
    \/ MainRaised
    \/ RunReturn
    \/ RunWriteLlms
    \/ RunDiscoverRaised
    \/ RunPromptAgain
    \/ RunChoose
    \/ RunAuto
    \/ RunSkip
    \/ RunSaveManifest
    \/ RunDownload
    \/ RunDownloadRaised
    \/ RunCombine
    \/ RunStartPage
    \/ RunMeta
    \/ TryLlmsSeen
    \/ TryLlmsFetch
    \/ TryLlmsReturn
    \/ ManifestReturn
    \/ ManifestRaise
    \/ ManifestEmpty
    \/ SitemapCandidate
    \/ SitemapNone
    \/ SitemapMalformed
    \/ SitemapUrlset
    \/ SitemapIndex
    \/ SitemapChildNoLoc
    \/ SitemapChild
    \/ SitemapChildrenDone
    \/ SitemapFiltered
    \/ SitemapFilterRaise
    \/ SitemapReturn
    \/ SitemapEmpty
    \/ NavScrape
    \/ NavRaise
    \/ DownloadStart
    \/ PageFetchFails
    \/ PageFetched
    \/ SaveRaw
    \/ SaveMd
    \/ SaveFails
    \/ PageSleep
    \/ DownloadReturn

SpecRun == RunInit /\ [][RunNext]_vars

(***************************************************************************)
(* SidebarLinkParser fed one event at a time, over pages of every shape    *)
(***************************************************************************)
MaxSideEvents == 4   \* most tag events of a page

\* <br>: an element with no closing tag
VoidTag == StartTag("br", <<>>, <<>>)

SidePieces ==
    { StartTag("nav", <<>>, <<>>), EndTag("nav"),
      StartTag("div", <<"m","e","n","u">>, <<>>), EndTag("div"),
      StartTag("a", <<>>, <<"/","d","/","n">>), EndTag("a"),
      StartTag("script", <<>>, <<>>), EndTag("script"),
      VoidTag }

RECURSIVE EventSeqs(_, _)
EventSeqs(pieces, n) ==
    IF n = 0 THEN {<<>>}
    ELSE LET shorter == EventSeqs(pieces, n - 1)
         IN  shorter \cup {Append(s, e) : s \in shorter, e \in pieces}

SideInit ==
    /\ SkipIdle
    /\ RunIdle
    /\ ConvIdle
    /\ UrlIdle
    /\ SelIdle
    /\ FetchIdle
    /\ ManIdle
    /\ DiscIdle
    /\ DownIdle
    /\ npc = "feed"
    /\ nevents \in EventSeqs(SidePieces, MaxSideEvents)
    /\ nk = 1
    /\ nst = NewParser

\* the page is the base page of https://h/d
SideBase == split_root_and_base(DocsUrl)

\* feed reports a start tag
SideStartTag ==
    /\ npc = "feed"
    /\ nk <= Len(nevents)
    /\ nevents[nk].ev = "start"
    /\ nst' = handle_starttag(nst, nevents[nk], SideBase)
    /\ nk' = nk + 1
    /\ UNCHANGED <<npc, nevents, notSideVars>>

\* feed reports an end tag
SideEndTag ==
    /\ npc = "feed"
    /\ nk <= Len(nevents)
    /\ nevents[nk].ev = "end"
    /\ nst' = handle_endtag(nst, nevents[nk])
    /\ nk' = nk + 1
    /\ UNCHANGED <<npc, nevents, notSideVars>>

\* the page is at its end
SideClose ==
    /\ npc = "feed"
    /\ nk > Len(nevents)
    /\ npc' = "done"
    /\ UNCHANGED <<nevents, nk, nst, notSideVars>>

SideNext ==
    \/ SideStartTag
    \/ SideEndTag
    \/ SideClose

SpecSide == SideInit /\ [][SideNext]_vars

(***************************************************************************)
(* The skip-depth counters: MarkdownishParser and HTMLTextExtractor, each  *)
(* fed one event at a time                                                 *)
(***************************************************************************)
MaxSkipEvents == 4   \* most events of a page

TagBlockquote == <<"b","l","o","c","k","q","u","o","t","e">>

SKIP_TAGS == {TagScript, TagStyle, TagNoscript}

BLOCK_TAGS ==
    { TagP, TagDiv, TagSection, TagArticle, TagHeader, TagFooter, TagNav, TagMain,
      TagAside, TagH1, TagH2, TagH3, TagH4, TagH5, TagH6, TagTable, TagTr, TagUl,
      TagOl, TagLi, TagPre, TagCode, TagBlockquote }

\* the character an entity name stands for: lt, gt and amp of the names html.unescape knows
EntityNames ==
    << [name |-> <<"l","t">>, char |-> "<"],
       [name |-> <<"g","t">>, char |-> ">"],
       [name |-> <<"a","m","p">>, char |-> "&"] >>

\* the entity that starts after the "&" at position i, 0 if there is none
EntityAt(s, i) ==
    LET hits == {n \in 1..Len(EntityNames) :
                    StartsWith(SubSeq(s, i + 1, Len(s)), EntityNames[n].name)}
    IN  IF hits = {} THEN 0 ELSE CHOOSE n \in hits : TRUE

\* html.unescape(data): each entity, with or without its ";", becomes its character
RECURSIVE UnescapeFrom(_, _, _)
UnescapeFrom(s, i, out) ==
    IF i > Len(s) THEN out
    ELSE IF s[i] = "&" /\ EntityAt(s, i) # 0
         THEN LET e == EntityNames[EntityAt(s, i)]
                  after == i + 1 + Len(e.name)
              IN  UnescapeFrom(s, IF after <= Len(s) /\ s[after] = ";" THEN after + 1 ELSE after,
                               Append(out, e.char))
    ELSE UnescapeFrom(s, i + 1, Append(out, s[i]))

unescape(s) == UnescapeFrom(s, 1, <<>>)

Part(st, chunk) == [st EXCEPT !.parts = Append(st.parts, chunk)]

\* "- " after the newline of a li, "\n" for a br
AfterBlock(st, tag) ==
    IF tag = TagLi THEN Part(st, <<"-"," ">>)
    ELSE IF tag = TagBr THEN Part(st, <<"\n">>)
    ELSE st

\* HTMLTextExtractor.handle_starttag
text_handle_starttag(st, tag) ==
    IF tag \in SKIP_TAGS THEN [st EXCEPT !._skip_depth = st._skip_depth + 1]
    ELSE AfterBlock(IF tag \in BLOCK_TAGS THEN Part(st, <<"\n">>) ELSE st, tag)

\* the end tag handled with the counter not looked at
text_handle_endtag_unguarded(st, tag) ==
    IF tag \in SKIP_TAGS THEN [st EXCEPT !._skip_depth = st._skip_depth - 1]
    ELSE IF tag \in BLOCK_TAGS THEN Part(st, <<"\n">>)
    ELSE st

\* HTMLTextExtractor.handle_endtag
text_handle_endtag(st, tag) ==
    IF tag \in SKIP_TAGS /\ st._skip_depth > 0
    THEN [st EXCEPT !._skip_depth = st._skip_depth - 1]
    ELSE IF tag \in BLOCK_TAGS THEN Part(st, <<"\n">>)
    ELSE st

\* HTMLTextExtractor.handle_data
text_handle_data(st, data) ==
    IF st._skip_depth > 0 THEN st
    ELSE IF data # <<>> THEN Part(st, unescape(data))
    ELSE st

\* the pieces the event sequences are made of
SkipPieces ==
    { StartEv(TagNoscript), EndEv(TagNoscript), EndEv(TagScript),
      StartEv(TagPre), StartEv(TagH2), StartEv(TagCode),
      DataEv(<<"a">>), DataEv(<<"&","l","t",";">>) }

Converters == {"markdownish", "text"}

SkipInit ==
    /\ SideIdle
    /\ RunIdle
    /\ ConvIdle
    /\ UrlIdle
    /\ SelIdle
    /\ FetchIdle
    /\ ManIdle
    /\ DiscIdle
    /\ DownIdle
    /\ kpc = "feed"
    /\ kconv \in Converters
    /\ kevents \in EventSeqs(SkipPieces, MaxSkipEvents)
    /\ kk = 1
    /\ kmd = NewMarkdownishParser
    /\ ktx = NewTextExtractor

\* the event the feed reports next
SkipEvent(conv, ev) ==
    /\ kpc = "feed"
    /\ kconv = conv
    /\ kk <= Len(kevents)
    /\ kevents[kk].ev = ev
    /\ kk' = kk + 1

MdStartTag ==
    /\ SkipEvent("markdownish", "start")
    /\ kmd' = md_handle_starttag(kmd, kevents[kk].tag)
    /\ UNCHANGED <<kpc, kconv, kevents, ktx, notSkipVars>>

MdEndTag ==
    /\ SkipEvent("markdownish", "end")
    /\ kmd' = md_handle_endtag(kmd, kevents[kk].tag)
    /\ UNCHANGED <<kpc, kconv, kevents, ktx, notSkipVars>>

MdData ==
    /\ SkipEvent("markdownish", "data")
    /\ kmd' = handle_data(kmd, kevents[kk].data)
    /\ UNCHANGED <<kpc, kconv, kevents, ktx, notSkipVars>>

TextStartTag ==
    /\ SkipEvent("text", "start")
    /\ ktx' = text_handle_starttag(ktx, kevents[kk].tag)
    /\ UNCHANGED <<kpc, kconv, kevents, kmd, notSkipVars>>

TextEndTag ==
    /\ SkipEvent("text", "end")
    /\ ktx' = text_handle_endtag(ktx, kevents[kk].tag)
    /\ UNCHANGED <<kpc, kconv, kevents, kmd, notSkipVars>>

TextData ==
    /\ SkipEvent("text", "data")
    /\ ktx' = text_handle_data(ktx, kevents[kk].data)
    /\ UNCHANGED <<kpc, kconv, kevents, kmd, notSkipVars>>

\* the feed is at its end
SkipClose ==
    /\ kpc = "feed"
    /\ kk > Len(kevents)
    /\ kpc' = "done"
    /\ UNCHANGED <<kconv, kevents, kk, kmd, ktx, notSkipVars>>

SkipNext ==
    \/ MdStartTag
    \/ MdEndTag
    \/ MdData
    \/ TextStartTag
    \/ TextEndTag
    \/ TextData
    \/ SkipClose

SpecSkip == SkipInit /\ [][SkipNext]_vars

(***************************************************************************)
(* C1: normalize_url is idempotent: normalising a normalised URL changes   *)
(* nothing.                                                                *)
(***************************************************************************)
C1_NormalizeIdempotent == upc = "renormalized" => norm2 = norm1

(***************************************************************************)
(* C2: every derived slug (safe_slug, slug_from_url, url_to_page_slug) is  *)
(* non-empty and made of characters in [A-Za-z0-9._-] only; an input that  *)
(* sanitizes to nothing yields the default token.                          *)
(***************************************************************************)
\* the input handed to safe_slug by each slug function
SlugSource ==
    CASE slugKind = "safe_slug" -> raw
      [] slugKind = "slug_from_url" ->
            LET p == urlsplit(raw)
            IN  IF Strip(p.path, {"/"}) # <<>>
                THEN p.netloc \o <<"_","_">> \o Strip(p.path, {"/"})
                ELSE p.netloc
      [] slugKind = "url_to_page_slug" ->
            LET p == urlsplit(raw)
            IN  IF Strip(p.path, {"/"}) # <<>> THEN Strip(p.path, {"/"}) ELSE IndexSlug
      [] OTHER -> <<>>

SanitizesToNothing(s) == \A i \in 1..Len(s) : s[i] \notin SafeChars \ {"_"}

C2_SlugSafe ==
    upc = "slugged" =>
        /\ slug # <<>>
        /\ \A i \in 1..Len(slug) : slug[i] \in SafeChars
        /\ SanitizesToNothing(SlugSource) => slug = DefaultSlug

C2_Witness ==
    /\ upc = "slugged"
    /\ slugKind = "url_to_page_slug"
    /\ SanitizesToNothing(SlugSource)
    /\ slug = DefaultSlug
    /\ raw # <<>>

(***************************************************************************)
(* C6: fetch makes at most retries+1 attempts, stops at the first attempt  *)
(* that succeeds and returns its result, returns None when every attempt   *)
(* fails, and returns (never raises) whatever an attempt raises.           *)
(***************************************************************************)
FailedAttempts == {i \in 1..Len(attempts) : attempts[i] \in AttemptFailures}

C6_FetchRetries ==
    /\ Len(attempts) <= retries + 1
    /\ \A i \in 1..Len(attempts) : attempts[i] = "response" => i = Len(attempts)
    /\ fpc = "returned" =>
          \/ /\ fres.kind = "None"
             /\ Len(attempts) = retries + 1
             /\ FailedAttempts = 1..Len(attempts)
          \/ /\ fres.kind = "FetchResult"
             /\ attempts[Len(attempts)] = "response"
             /\ fres.attempt = Len(attempts) - 1
    /\ fpc # "raised"
    /\ fpc # "returned" => ENABLED FetchNext

C6_Witness ==
    /\ fpc = "returned"
    /\ fres.kind = "None"
    /\ retries = 2
    /\ attempts = <<"URLError", "Exception", "HTTPError">>

(***************************************************************************)
(* C9: parse_selection returns, strictly increasing, exactly the integers  *)
(* of 1..n named by a valid index token or lying inside a valid range      *)
(* token; other tokens add nothing, out-of-bounds indices are dropped.     *)
(***************************************************************************)
\* a token is read as Python reads it: a range is split at its first "-", its
\* ends are read by int() and may come in either order
TokenNames(tok0, x) ==
    LET tok  == Strip(tok0, Whitespace)
        dash == FindAny(tok, {"-"}, 1)
    IN  IF dash > Len(tok)
        THEN PyInt(tok).ok /\ PyInt(tok).val = x
        ELSE LET a == PyInt(SubSeq(tok, 1, dash - 1))
                 b == PyInt(From(tok, dash + 1))
             IN  /\ a.ok
                 /\ b.ok
                 /\ \/ a.val <= x /\ x <= b.val
                    \/ b.val <= x /\ x <= a.val

SelTokens == Split(Strip(sel, Whitespace), ",")

C9_ParseSelection ==
    spc = "parsed" =>
        /\ \A i \in 1..(Len(selOut) - 1) : selOut[i] < selOut[i+1]
        /\ {selOut[i] : i \in 1..Len(selOut)} =
              {x \in 1..seln : \E k \in 1..Len(SelTokens) : TokenNames(SelTokens[k], x)}

C9_Witness ==
    /\ spc = "parsed"
    /\ sel = ScenarioSel
    /\ selOut = <<2, 4, 5, 6>>

(***************************************************************************)
(* C3: every URL in the page list discover_pages returns has the host of   *)
(* the base URL and a path equal to the base path or nested under it; a    *)
(* sibling path that only shares the base path as a string prefix is never *)
(* included.                                                               *)
(***************************************************************************)
\* a path equal to the base path or nested under it
PathUnder(path, basePath) ==
    LET bp == RStrip(basePath, {"/"})
    IN  path = bp \/ StartsWith(path, bp \o <<"/">>)

UnderBase(parts, baseParts) ==
    /\ ~parts.err
    /\ parts.netloc = baseParts.netloc
    /\ PathUnder(parts.path, baseParts.path)

C3_PagesUnderBase ==
    dpc = "returned" =>
        \A i \in 1..Len(ret.pages) : UnderBase(urlsplit(ret.pages[i]), urlsplit(dbase))

(***************************************************************************)
(* C4: discover_pages runs manifest, sitemap, navigation scrape in that    *)
(* order and returns the pages of the first strategy that yields any: the  *)
(* sitemap is probed only if the manifest yielded no pages, the base page  *)
(* is fetched only if the sitemap yielded none, and the method names the   *)
(* strategy whose pages are returned.                                      *)
(***************************************************************************)
SitemapProbed == \E i \in 1..Len(fetched) : fetched[i] \in Range(SitemapCandidates(dbase))
BaseFetched == \E i \in 1..Len(fetched) : fetched[i] = dbase
ManifestYieldsNone == dpc # "llms" /\ ~ManifestUrls.raised /\ ManifestUrls.urls = <<>>

ReturnedBy(method) ==
    IF method = "llms.txt"
    THEN ret.pages = ManifestUrls.urls /\ ~SitemapProbed /\ ~BaseFetched
    ELSE IF method = "sitemap.xml"
    THEN ret.pages = sm.out /\ SitemapProbed /\ ~BaseFetched
    ELSE IF method = "sidebar/nav"
    THEN ret.pages = NavLinks.urls /\ BaseFetched
    ELSE method = "ingen" /\ BaseFetched /\ NavLinks.urls = <<>>

C4_StrategyOrder ==
    /\ SitemapProbed => ManifestYieldsNone
    /\ BaseFetched => ManifestYieldsNone /\ SitemapProbed /\ sm.out = <<>>
    /\ dpc = "returned" =>
          /\ ReturnedBy(ret.method)
          /\ ret.method # "ingen" => ret.pages # <<>>

\* the manifest is there but lists no page, the sitemap gives none, the scrape wins
C4_Witness ==
    /\ dpc = "returned"
    /\ ret.method = "sidebar/nav"
    /\ HasManifest
    /\ Len(fetched) > Len(SitemapCandidates(dbase))

(***************************************************************************)
(* C5: discover_pages reports the method "ingen" (none) exactly when the   *)
(* page list it returns is empty, and whatever it returns, also after a    *)
(* failed fetch of the base page, it returns every manifest file the probe *)
(* found.                                                                  *)
(***************************************************************************)
Hit(u) == ~Unusable(Fetch(u)) /\ looks_textlike(Fetch(u))

\* the positions of the candidates that are the first hit for their file name
FirstHits(cands) ==
    {j \in 1..Len(cands) :
        /\ Hit(cands[j])
        /\ \A k \in 1..(j - 1) :
              ~(Hit(cands[k]) /\ LastSegment(cands[k]) = LastSegment(cands[j]))}

FilesOn(cands) ==
    {[name |-> LastSegment(cands[j]), url |-> cands[j], body |-> Fetch(cands[j])] :
        j \in FirstHits(cands)}

C5_NoneIffEmpty ==
    dpc = "returned" =>
        /\ ret.method = "ingen" <=> ret.pages = <<>>
        /\ ret.files = FilesOn(LlmsCandidates(dbase))

C5_Witness ==
    /\ dpc = "returned"
    /\ ret.method = "ingen"
    /\ ret.files # {}
    /\ Unusable(Fetch(dbase))

(***************************************************************************)
(* C7: when the first usable sitemap is a sitemap index, each child        *)
(* sitemap it lists is fetched once, in order, and only the <url><loc>     *)
(* entries of those children are collected; a child that is itself an      *)
(* index adds no URL and its children are not fetched, and a child that    *)
(* fails to fetch or parse is skipped while the others are still visited.  *)
(***************************************************************************)
IndexTaken == sm.xml # <<>> /\ sm.xml[1].type = "sitemapindex"

\* the child sitemaps the index lists: its <sitemap> entries that have a loc
ListedChildren == SelectSeq(LocTextsOf(sm.xml[1].items), NonEmpty)

\* the fetches made after the candidate that gave the index
ChildFetches == SubSeq(fetched, sm.i + 1, Len(fetched))

LeafLocs(u) ==
    IF Fetch(u).kind = "ok" /\ Fetch(u).type = "urlset" THEN LocTexts(Fetch(u).items)
    ELSE <<>>

RECURSIVE Collected(_)
Collected(children) ==
    IF children = <<>> THEN <<>>
    ELSE LeafLocs(Head(children)) \o Collected(Tail(children))

IsPrefix(s, t) == Len(s) <= Len(t) /\ SubSeq(t, 1, Len(s)) = s

C7_IndexOneLevel ==
    IndexTaken =>
        /\ IsPrefix(ChildFetches, ListedChildren)
        /\ sm.urls = Collected(ChildFetches)
        /\ dpc \in {"sm_filter", "sm_done", "raised"} => ChildFetches = ListedChildren

\* the first child is itself an index, the second one gives pages
C7_Witness ==
    /\ IndexTaken
    /\ dpc = "sm_done"
    /\ Len(ListedChildren) = 2
    /\ Fetch(ListedChildren[1]).type = "sitemapindex"
    /\ sm.urls # <<>>

(***************************************************************************)
(* C8: extract_urls_from_llms_txt returns exactly the sorted,              *)
(* duplicate-free set of the link targets that, made absolute, have the    *)
(* base URL's host and a path equal to or nested under the base path, each *)
(* without its fragment; other links and unparseable URLs are left out     *)
(* without aborting the scan.                                              *)
(***************************************************************************)
\* the absolute form of a link target, where it has one
TargetAbsolute(t0) ==
    LET t == Strip(Strip(t0, Whitespace), {".", ",", ";", ":"})
    IN  IF StartsWith(t, <<"/">>) THEN urljoin(mbase, t)
        ELSE IF StartsWith(t, HTTP) \/ StartsWith(t, HTTPS)
             THEN [err |-> urlsplit(t).err, url |-> t]
        ELSE [err |-> TRUE, url |-> <<>>]

WantedTargets ==
    {a.url : a \in {x \in {TargetAbsolute(mtext[i]) : i \in 1..Len(mtext)} :
                       /\ ~x.err
                       /\ urlsplit(x.url).netloc = urlsplit(mbase).netloc
                       /\ PathUnder(urlsplit(x.url).path, urlsplit(mbase).path)}}

Defragmented(u) ==
    LET p == urlsplit(u)
    IN  urlunsplit(p.scheme, p.netloc, p.path, p.query, <<>>)

C8_ManifestLinks ==
    mpc = "done" =>
        /\ ~mout.raised
        /\ mout.urls = SortedStrs({Defragmented(u) : u \in WantedTargets})

(***************************************************************************)
(* C10: in download_pages a page whose fetch fails (no result, a status    *)
(* other than 200, an empty body) is skipped and every later URL of the    *)
(* bounded list is still fetched; the list returned has an entry for every *)
(* URL fetched successfully, however many pages failed before it.          *)
(***************************************************************************)
Succeeded(u) == ~Unusable(Fetch(u))

MdPathsOf(us) == [i \in 1..Len(us) |-> MdPath(us[i])]

C10_FailedPageSkipped ==
    /\ wpc \notin {"idle", "start"} => IsPrefix(fetched, Take(dsel, max_pages))
    /\ wpc \in {"top", "returned"} => md_paths = MdPathsOf(SelectSeq(fetched, Succeeded))
    /\ wpc = "top" => ENABLED DownNext
    /\ wpc = "returned" => fetched = Take(dsel, max_pages)

\* the first page failed, and a later one is in the list returned
C10_Witness ==
    /\ wpc = "returned"
    /\ Len(fetched) >= 2
    /\ ~Succeeded(fetched[1])
    /\ md_paths # <<>>

(***************************************************************************)
(* C19: the sitemap probe uses the first candidate that parses as XML:     *)
(* when an earlier candidate is fetched with a body that is not well       *)
(* formed and a later candidate is a well-formed urlset, the URLs returned *)
(* are those of the later candidate.                                       *)
(***************************************************************************)
WellFormed(u) == ~Unusable(Fetch(u)) /\ ParsesAsXml(Fetch(u))

WellFormedAt ==
    {i \in 1..Len(SitemapCandidates(dbase)) : WellFormed(SitemapCandidates(dbase)[i])}

FirstWellFormed == Fetch(SitemapCandidates(dbase)[Min(WellFormedAt)])

C19_FirstWellFormedUsed ==
    (dpc = "sm_done" /\ WellFormedAt # {} /\ FirstWellFormed.type = "urlset") =>
        sm.out = SitemapFilter(LocTexts(FirstWellFormed.items), dbase).urls



(***************************************************************************)
(* C20: the manifest probe tries the three file names under the base path, *)
(* then under the site root, then under /docs/ (the last only when the    *)
(* base path is empty); no candidate URL is fetched twice, also when base  *)
(* and root coincide; and for each file name the first successful fetch    *)
(* (status 200, non-empty, text-like) is the one kept, whatever is fetched *)
(* after it.                                                               *)
(***************************************************************************)
\* the fetches try_llms_files has made so far
LlmsLog == SubSeq(fetched, 1, Cardinality(seenC))

\* the locations in the order the claim gives them
ProbeLocations(rb) ==
    <<rb.base, rb.root>>
    \o (IF Strip(urlsplit(rb.base).path, {"/"}) = <<>>
        THEN <<rb.root \o <<"/","d","o","c","s">> >>
        ELSE <<>>)

\* location by location, the three file names in turn
ProbeOrderOf(locs) ==
    [i \in 1..(3 * Len(locs)) |->
        Under(locs[((i - 1) \div 3) + 1], Variants[((i - 1) % 3) + 1])]

ProbeOrder == ProbeOrderOf(ProbeLocations(split_root_and_base(dbase)))

\* a sequence without its repeated elements, first occurrences kept
RECURSIVE Dedupe(_, _)
Dedupe(s, out) ==
    IF s = <<>> THEN out
    ELSE IF \E i \in 1..Len(out) : out[i] = Head(s) THEN Dedupe(Tail(s), out)
    ELSE Dedupe(Tail(s), Append(out, Head(s)))

ProbedInOrder(log, order) ==
    /\ IsPrefix(log, order)
    /\ dpc # "llms" => log = order
    /\ found = FilesOn(log)

C20_ManifestProbeOrder ==
    /\ Len(fetched) >= Cardinality(seenC)
    /\ ProbedInOrder(LlmsLog, Dedupe(ProbeOrder, <<>>))

\* base and root coincide, and llms.txt was found twice: at the root and under /docs/
TwoHits(log) ==
    \E i, j \in 1..Len(log) :
        /\ i < j
        /\ Hit(log[i])
        /\ Hit(log[j])
        /\ LastSegment(log[i]) = LastSegment(log[j])

C20_Witness ==
    /\ dpc = "manifest"
    /\ dbase = RootUrl
    /\ Len(LlmsLog) = 6
    /\ TwoHits(LlmsLog)

(***************************************************************************)
(* C17: normalize_url returns the empty string whenever its input is empty *)
(* once whitespace and quotes are trimmed from both ends, so that the run  *)
(* for such a target stops at its first test.                              *)
(***************************************************************************)
EmptyAfterTrimming(s) == Strip(s, Whitespace \cup Quotes) = <<>>

C17_EmptyInputSentinel ==
    (upc = "normalized" /\ EmptyAfterTrimming(raw)) => norm1 = <<>>

(***************************************************************************)
(* C15: in the markdown-ish converter the '#' prefix of a heading is       *)
(* written at most once per heading element, whatever the events are: when *)
(* the text of the heading comes in several chunks, the later chunks are   *)
(* not prefixed again.  Every heading start tag writes a blank-line chunk, *)
(* so two prefix chunks of one element are two with no such chunk between. *)
(***************************************************************************)
IsHeadingPrefix(chunk) == \E level \in 1..6 : chunk = HeadingPrefix(level)

PrefixedOnce(out) ==
    \A i, j \in 1..Len(out) :
        (i < j /\ IsHeadingPrefix(out[i]) /\ IsHeadingPrefix(out[j])) =>
            \E k \in (i + 1)..(j - 1) : out[k] = <<"\n", "\n">>

C15_HeadingPrefixOnce == PrefixedOnce(cst.out)

(***************************************************************************)
(* C16: for a document without markup the converter returns the text with  *)
(* only its whitespace changed: the words of the text in their order, one  *)
(* space between two words, nothing before the first or after the last but *)
(* one newline at the end.                                                 *)
(***************************************************************************)
IsPlain(doc) == \A i \in 1..Len(doc) : doc[i].ev = "data"

\* the text of a document without markup
PlainText(doc) == IF doc = <<>> THEN <<>> ELSE doc[1].data

\* the maximal runs of characters other than whitespace, in order
RECURSIVE Words(_, _, _)
Words(s, word, out) ==
    IF s = <<>> THEN (IF word = <<>> THEN out ELSE Append(out, word))
    ELSE IF Head(s) \in Whitespace
         THEN Words(Tail(s), <<>>, IF word = <<>> THEN out ELSE Append(out, word))
    ELSE Words(Tail(s), Append(word, Head(s)), out)

RECURSIVE SpaceJoined(_)
SpaceJoined(words) ==
    IF words = <<>> THEN <<>>
    ELSE IF Len(words) = 1 THEN words[1]
    ELSE words[1] \o <<" ">> \o SpaceJoined(Tail(words))

C16_PlainTextRoundTrip ==
    (cpc = "done" /\ IsPlain(chtml) /\ Len(chtml) <= 1) =>
        ctext = Append(SpaceJoined(Words(PlainText(chtml), <<>>, <<>>)), "\n")

\* a text with a run of two whitespace characters between its words
C16_Witness ==
    /\ cpc = "done"
    /\ chtml = PlainDoc(<<"a", " ", "\n", "#">>)
    /\ ctext = <<"a", " ", "#", "\n">>

(***************************************************************************)
(* C11: pages are fetched in the order of the selected list and the page   *)
(* sections of the combined document come in that order: where URL a is    *)
(* before URL b in the list and both succeed, a is fetched before b and    *)
(* the converted text of a precedes that of b in the combined document.    *)
(***************************************************************************)
\* the places of the download log where u is fetched
FetchesOf(u) == {p \in 1..Len(dlog) : dlog[p] = FetchEvent(u)}

\* the page sections of a combined document that hold the converted text of u
SectionsOf(doc, u) == {p \in 1..Len(doc.parts) : doc.parts[p].url = u}

InListOrder(doc, a, b) ==
    /\ \E p \in FetchesOf(a), q \in FetchesOf(b) : p < q
    /\ \E p \in SectionsOf(doc, a), q \in SectionsOf(doc, b) : p < q

C11_ListOrderKept ==
    \A k \in 1..Len(outs) :
        outs[k].kind = "combined" =>
            \A i, j \in 1..Len(durls) :
                (i < j /\ IsOk(durls[i]) /\ IsOk(durls[j])) =>
                    InListOrder(outs[k], durls[i], durls[j])

(***************************************************************************)
(* C12: where llms-full.txt was found and the action is the one combined   *)
(* document (answer 2, or the mode "full"), the run writes the body of the *)
(* manifest, as it was fetched, as its combined output, and fetches no     *)
(* page: download_pages is never entered.                                  *)
(***************************************************************************)
SingleDocumentChosen ==
    /\ rpc \in {"act", "done"}
    /\ plan.action \in {"full_single", "full"}
    /\ HasLlmsFull(ret.files)

IsCombinedOutput(f) == f.path \in {CombinedMd, CombinedLlmsFull}

\* the one combined output is the body fetched from where llms-full.txt was found
ManifestWrittenUnchanged ==
    /\ Len(SelectSeq(outs, IsCombinedOutput)) = 1
    /\ \E f \in ret.files :
          /\ f.name = LlmsFull
          /\ SelectSeq(outs, IsCombinedOutput)[1] =
                OutFile(CombinedLlmsFull, "manifest", <<>>, Fetch(f.url), NoMeta)

NoPageFetched ==
    /\ wpc = "idle"
    /\ dlog = <<>>
    /\ disk = <<>>
    /\ \A k \in 1..Len(fetched) : fetched[k] \in DiscUrls(dbase)

C12_ManifestPreferred ==
    SingleDocumentChosen =>
        /\ NoPageFetched
        /\ rpc = "done" => ManifestWrittenUnchanged

C12_Witness ==
    /\ rpc = "done"
    /\ rkind = "interactive"
    /\ plan.action = "full_single"
    /\ HasLlmsFull(ret.files)
    /\ ret.pages = <<PageI>>
    /\ outs[Len(outs)].path = CombinedLlmsFull

(***************************************************************************)
(* C13: every run that downloads pages, interactive or automated, ends by  *)
(* writing meta.json exactly once, after the pages were processed and the  *)
(* combined document was built, and meta.json records how many pages were  *)
(* converted (zero where no fetch succeeded).                              *)
(***************************************************************************)
IsMetaFile(f) == f.path = MetaJson

\* the run's last two writes are the combined document and then meta.json
EndsWithMeta ==
    /\ Len(SelectSeq(outs, IsMetaFile)) = 1
    /\ Len(outs) >= 2
    /\ outs[Len(outs)].path = MetaJson
    /\ outs[Len(outs) - 1].path = CombinedMd
    /\ outs[Len(outs)].meta.downloaded_pages = Len(md_paths)

C13_MetaEndsEveryDownload ==
    (rpc = "done" /\ plan.download) => EndsWithMeta

(***************************************************************************)
(* C14: the exit status is 0 when every target succeeded or was skipped    *)
(* cleanly, and it is not 0 when at least one target failed to fetch       *)
(* anything.                                                               *)
(***************************************************************************)
\* the target was skipped at the menu
Skipped(r) == r.ended = "returned" /\ r.action = "skip"

\* the run of the target came to its end and some fetch of it was answered
TargetSucceeded(r) == r.ended = "returned" /\ r.action # "skip" /\ r.answered > 0

\* the target was not skipped and no fetch made for it was answered
FetchedNothing(r) == ~Skipped(r) /\ r.answered = 0

C14_ExitStatus ==
    rpc = "exited" =>
        /\ (\A k \in 1..Len(results) : TargetSucceeded(results[k]) \/ Skipped(results[k]))
              => status = <<0>>
        /\ (\E k \in 1..Len(results) : FetchedNothing(results[k]))
              => status # <<0>>

(***************************************************************************)
(* C18: the modes "full", "all" and "start" of an automated run map to the *)
(* interactive actions "one combined document" (answer 2), "all pages"     *)
(* (answer 3) and "only the start page" (answer 1): for the same discovery *)
(* result and the same fetch outcomes the automated run writes the same    *)
(* set of files as the interactive run of that action.                     *)
(***************************************************************************)
\* the answer at the menu that a mode stands for
AnswerOfMode(mode) ==
    IF mode = "full" THEN Answer("2", <<>>, BadPattern)
    ELSE IF mode = "all" THEN Answer("3", <<>>, BadPattern)
    ELSE Answer("1", <<>>, BadPattern)

\* the files download_pages leaves for the URLs it is given, when no save fails
PageFiles(urls) ==
    UNION {{RawPath(urls[k], LowerStr(Fetch(urls[k]).ctype)), MdPath(urls[k])} :
              k \in {i \in 1..Len(urls) : IsOk(urls[i])}}

\* the files a run with plan p writes, the saved manifests included
FilesOfPlan(p) ==
    {outs[k].path : k \in {i \in 1..Len(outs) : outs[i].kind = "manifest"
                                                  /\ outs[i].path # CombinedLlmsFull}}
    \cup (IF p.action = "skip" THEN {}
          ELSE IF ~p.download THEN {CombinedLlmsFull}
          ELSE PageFiles(Take(p.chosen, p.max))
               \cup (IF p.combine THEN {CombinedMd} ELSE {})
               \cup (IF p.meta THEN {MetaJson} ELSE {}))

\* the files the run has written
FilesWritten == DOMAIN disk \cup {outs[k].path : k \in 1..Len(outs)}

\* the plan of the interactive run that gives the answer the mode stands for
InteractiveCounterpart ==
    InteractivePlan(choose_action(AnswerOfMode(rmode), dbase, ret.pages),
                    HasLlmsFull(ret.files))

C18_AutoWritesWhatInteractiveWrites ==
    (/\ rpc = "done"
     /\ rkind = "auto"
     /\ choose_action(AnswerOfMode(rmode), dbase, ret.pages).valid)
        => FilesWritten = FilesOfPlan(InteractiveCounterpart)

(***************************************************************************)
(* C21: a disk write failure while one page's raw or converted file is     *)
(* saved is fatal for that page only: the remaining URLs of the batch are  *)
(* still fetched and the pages written are still returned.                 *)
(***************************************************************************)
\* download_pages has ended, by return or by an exception
DownloadEnded == wpc \in {"returned", "raised"}

BatchCompleted ==
    /\ wpc = "returned"
    /\ \A k \in 1..Len(durls) : FetchesOf(durls[k]) # {}

C21_SaveFailureThatPageOnly == DownloadEnded => BatchCompleted

(***************************************************************************)
(* C22: in download_pages the politeness delay is observed between every   *)
(* two consecutive page requests: after the request for one URL and before *)
(* the request for the next there is one delay wait, whatever the outcome  *)
(* of the first request.                                                   *)
(***************************************************************************)
FetchPlaces == {p \in 1..Len(dlog) : dlog[p].ev = "fetch"}

\* the waits made between the places p and q of the log
SleepsBetween(p, q) == {s \in (p + 1)..(q - 1) : dlog[s] = SleepEvent}

\* q is the request that follows the request p
NextRequest(p, q) == p < q /\ \A r \in FetchPlaces : ~(p < r /\ r < q)

C22_DelayBetweenRequests ==
    \A p, q \in FetchPlaces :
        NextRequest(p, q) => Cardinality(SleepsBetween(p, q)) = 1

(***************************************************************************)
(* C23: for each page fetched, its raw file and then its converted file    *)
(* are written before the next URL is fetched; so at any point every page  *)
(* with a converted file has its raw file too, and the files of the pages  *)
(* completed earlier are on disk and are not touched while later requests  *)
(* are processed.                                                          *)
(***************************************************************************)
IsConverted(f) == f.conv # "raw"

\* the converted file at path has the raw file of the same page beside it
HasRawFile(path) ==
    \E q \in DOMAIN disk : ~IsConverted(disk[q]) /\ disk[q].url = disk[path].url

\* the request at place p of the log was answered and q is the next request:
\* the two saves of the page lie in between, the raw file first
SavedBeforeNext(p, q) ==
    \E r, c \in (p + 1)..(q - 1) :
        /\ r < c
        /\ dlog[r] = SaveEvent(RawPath(dlog[p].at, LowerStr(Fetch(dlog[p].at).ctype)))
        /\ dlog[c] = SaveEvent(MdPath(dlog[p].at))

PagesFlushed ==
    /\ \A path \in DOMAIN disk : IsConverted(disk[path]) => HasRawFile(path)
    /\ \A p, q \in FetchPlaces :
          (NextRequest(p, q) /\ IsOk(dlog[p].at)) => SavedBeforeNext(p, q)

\* a file on disk stays as it is
FilesUntouched ==
    \A path \in DOMAIN disk : path \in DOMAIN disk' /\ disk'[path] = disk[path]

C23_CompletedPagesStay == []PagesFlushed /\ [][FilesUntouched]_vars

(***************************************************************************)
(* C24: download_pages fetches at most max_pages URLs, namely the first    *)
(* max_pages entries of the list it is given, in order, and the number of  *)
(* converted files it returns never exceeds min(len(urls), max_pages).     *)
(***************************************************************************)
IsFetchEvent(e) == e.ev = "fetch"

\* the URLs requested so far, in order
Requested == [k \in 1..Len(SelectSeq(dlog, IsFetchEvent)) |->
                 SelectSeq(dlog, IsFetchEvent)[k].at]

PageLimit == Min({Len(dsel), max_pages})

C24_AtMostMaxPages ==
    /\ Len(Requested) <= PageLimit
    /\ Requested = SubSeq(dsel, 1, Len(Requested))
    /\ Len(md_paths) <= PageLimit
    /\ wpc = "returned" => Len(Requested) = PageLimit

C24_Witness ==
    /\ wpc = "returned"
    /\ Len(dsel) = MaxUrls
    /\ max_pages = MaxUrls - 1
    /\ Len(Requested) = MaxUrls - 1
    /\ Len(md_paths) = MaxUrls - 1

(***************************************************************************)
(* C25: the HTML converter is run on a page only when its content is HTML; *)
(* for every page whose Content-Type is not HTML (types other than         *)
(* markdown, plain text and JSON included) the converted body is the       *)
(* decoded text unchanged, with a newline appended only when it is missing.*)
(***************************************************************************)
\* the lower-cased Content-Type of the response says HTML
ContentIsHtml(u) == Contains(LowerStr(Fetch(u).ctype), TextHtml)

PassedThrough(f) ==
    /\ f.conv = "text"
    /\ f.text = WithNewline(Fetch(f.url).items)

C25_ConverterOnlyForHtml ==
    \A path \in DOMAIN disk :
        IsConverted(disk[path]) =>
            IF ContentIsHtml(disk[path].url)
            THEN disk[path].conv = "html_to_markdownish"
            ELSE PassedThrough(disk[path])

(***************************************************************************)
(* C30: within one download_pages run two distinct URLs never write to the *)
(* same raw or converted file: no page's output is overwritten by a later  *)
(* page, the returned list of converted files has no repeated path, and    *)
(* the combined document holds the text of each processed page once.       *)
(***************************************************************************)
SavePlaces == {p \in 1..Len(dlog) : IsSave(dlog[p])}

\* the URL being processed when the save at place p of the log is made
PageOfSave(p) == dlog[Max({q \in FetchPlaces : q < p})].at

\* the places of md_paths that come from distinct URLs name distinct files
DistinctPaths ==
    \A i, j \in 1..Len(md_paths) :
        (i < j /\ md_paths[i] = md_paths[j]) =>
            \E u \in {durls[k] : k \in 1..Len(durls)} :
                Cardinality({p \in SavePlaces : dlog[p] = SaveEvent(md_paths[i])
                                                  /\ PageOfSave(p) = u}) >= 2

C30_NoSharedFile ==
    /\ \A p, q \in SavePlaces :
          dlog[p].at = dlog[q].at => PageOfSave(p) = PageOfSave(q)
    /\ DistinctPaths

(***************************************************************************)
(* C28: every slug built from a URL, the slug of the site directory and    *)
(* the slug of a page, combines host and path with a double underscore and *)
(* is at most 140 characters long, cut where the sanitized text is longer. *)
(***************************************************************************)
\* host, "__" and path of the URL, sanitized
HostAndPath(url) ==
    safe_slug([i \in 1..Len(urlsplit(url).netloc) |->
                  IF urlsplit(url).netloc[i] = ":" THEN "_" ELSE urlsplit(url).netloc[i]]
              \o <<"_","_">> \o Strip(urlsplit(url).path, {"/"}))

HasPath(url) == Strip(urlsplit(url).path, {"/"}) # <<>>

C28_UrlSlugs ==
    (upc = "slugged" /\ slugKind \in {"slug_from_url", "url_to_page_slug"}) =>
        /\ Len(slug) <= MaxSlugLen
        /\ HasPath(raw) => slug = Take(HostAndPath(raw), MaxSlugLen)

(***************************************************************************)
(* C27: choose_action returns only after a valid choice.  An unknown       *)
(* choice, the choices 3, 4 and 5 when no page was discovered, a selection *)
(* that names no page, an invalid regex and a regex matching no URL lead   *)
(* to a new prompt and change nothing; "skip" is returned with an empty    *)
(* list only, and "select_pages" only with a non-empty list whose entries  *)
(* are discovered pages, in discovery order, none more often than listed.  *)
(***************************************************************************)
\* the answers the claim says are asked again, for the pages listed
MustAskAgain(ans, pages) ==
    \/ ans.choice \notin {"0", "1", "2", "3", "4", "5"}
    \/ ans.choice \in {"3", "4", "5"} /\ pages = <<>>
    \/ ans.choice = "4" /\ parse_selection(ans.sel, Len(pages)) = <<>>
    \/ ans.choice = "5" /\ ~ans.pattern.ok
    \/ ans.choice = "5" /\ \A k \in 1..Len(pages) : ~Contains(pages[k], ans.pattern.lit)

\* urls is pages with some places left out
PickedInOrder(urls, pages) ==
    \E I \in SUBSET (1..Len(pages)) : urls = PagesAt(pages, SortedInts(I))

ValidReturn(c, pages) ==
    /\ c.action \in {"start", "full_single", "all_pages", "select_pages", "skip"}
    /\ c.action = "skip" => c.chosen = <<>>
    /\ c.action = "select_pages" => c.chosen # <<>> /\ PickedInOrder(c.chosen, pages)

\* at the menu: what each answer leads to
MenuAnswers ==
    rpc = "choose" =>
        \A ans \in Answers :
            IF MustAskAgain(ans, ret.pages)
            THEN ~choose_action(ans, dbase, ret.pages).valid
            ELSE /\ choose_action(ans, dbase, ret.pages).valid
                 /\ ValidReturn(choose_action(ans, dbase, ret.pages), ret.pages)

\* after the menu: what was returned
MenuReturned ==
    (rkind = "interactive" /\ rpc \in {"act", "download", "meta", "done"}) =>
        /\ plan.action = "skip" => plan.chosen = <<>>
        /\ plan.action = "select_pages" =>
              plan.chosen # <<>> /\ PickedInOrder(plan.chosen, ret.pages)

\* a rejected answer changes nothing but the count of answers
AskedAgain ==
    (rpc = "choose" /\ rpc' = "choose") =>
        UNCHANGED <<rkind, rmode, rargs, ri, rraw, plan, siteDir, outs, status, results,
                    notRunVars>>

C27_ChooseAction == [](MenuAnswers /\ MenuReturned) /\ [][AskedAgain]_vars

C27_Witness ==
    /\ rpc = "act"
    /\ prompts = 1
    /\ plan.action = "select_pages"
    /\ Len(ret.pages) = 2
    /\ plan.chosen = <<ret.pages[2]>>

(***************************************************************************)
(* C29: in the link extractor of the navigation scrape the ancestry stack  *)
(* is the list of the elements that are open: an element with no closing   *)
(* tag and a mismatched closing tag never leave a closed nav, aside or     *)
(* keyword element on the stack, so no link after the end of such a        *)
(* container is collected because of it.                                   *)
(***************************************************************************)
\* the open elements with the innermost element named tag, and all inside it, closed
RECURSIVE ClosedTo(_, _)
ClosedTo(open, tag) ==
    IF open = <<>> THEN <<>>
    ELSE IF open[Len(open)].tag = tag THEN SubSeq(open, 1, Len(open) - 1)
    ELSE ClosedTo(SubSeq(open, 1, Len(open) - 1), tag)

\* the elements open after one more event
OpenAfter(open, e) ==
    IF e.ev = "start"
    THEN IF e = VoidTag THEN open
         ELSE Append(open, [tag |-> e.tag, cls |-> e.cls, id |-> e.id])
    ELSE IF \E i \in 1..Len(open) : open[i].tag = e.tag THEN ClosedTo(open, e.tag)
    ELSE open

\* the elements open after the events, script elements and what is inside left out
RECURSIVE OpenElements(_, _, _)
OpenElements(events, open, depth) ==
    IF events = <<>> THEN open
    ELSE IF Head(events).tag = "script"
         THEN OpenElements(Tail(events), open,
                           IF Head(events).ev = "start" THEN depth + 1
                           ELSE IF depth > 0 THEN depth - 1 ELSE 0)
    ELSE IF depth > 0 THEN OpenElements(Tail(events), open, depth)
    ELSE OpenElements(Tail(events), OpenAfter(open, Head(events)), depth)

OpenNow == OpenElements(SubSeq(nevents, 1, nk - 1), <<>>, 0)

\* the places of the page where a link stands inside an open candidate container
LinkPlaces ==
    {k \in 1..(nk - 1) :
        /\ nevents[k].ev = "start"
        /\ nevents[k].tag = "a"
        /\ _in_candidate(OpenElements(SubSeq(nevents, 1, k - 1), <<>>, 0))}

C29_StackIsOpenElements ==
    /\ nst.stack = OpenNow
    /\ nst.urls # <<>> => LinkPlaces # {}

(***************************************************************************)
(* C26: in both converters, for any sequence of start-tag, end-tag and     *)
(* text events, the skip-depth counter for script/style/noscript never     *)
(* becomes negative (an unmatched closing tag leaves it at 0), and a text  *)
(* chunk is emitted to the output if and only if the counter is 0 when the *)
(* chunk arrives; in the markdown-ish converter no tag seen while the      *)
(* counter is positive changes the output or the pre/code/heading state.   *)
(***************************************************************************)
SkipDepth == IF kconv = "markdownish" THEN kmd._ignore_depth ELSE ktx._skip_depth

SkipDepthAfter == IF kconv = "markdownish" THEN kmd'._ignore_depth ELSE ktx'._skip_depth

DepthNeverNegative == kmd._ignore_depth >= 0 /\ ktx._skip_depth >= 0

\* the step handles an event of this kind
Handles(ev) == kpc = "feed" /\ kk' = kk + 1 /\ kevents[kk].ev = ev

\* the step appends to the output of the converter that runs
OutputGrows ==
    IF kconv = "markdownish" THEN Len(kmd'.out) > Len(kmd.out)
    ELSE Len(ktx'.parts) > Len(ktx.parts)

OutputSame == kmd'.out = kmd.out /\ ktx'.parts = ktx.parts

\* the text of the chunk is the last entry of the output
ChunkIsLast ==
    IF kconv = "markdownish"
    THEN kmd'.out[Len(kmd'.out)] = CollapseWhitespace(kevents[kk].data)
    ELSE ktx'.parts[Len(ktx'.parts)] = unescape(kevents[kk].data)

UnmatchedCloseStaysZero ==
    Handles("end") /\ kevents[kk].tag \in SKIP_TAGS /\ SkipDepth = 0
        => SkipDepthAfter = 0

TextEmittedIffZero ==
    Handles("data")
        => /\ SkipDepthAfter = SkipDepth
           /\ OutputGrows <=> SkipDepth = 0
           /\ SkipDepth = 0 => ChunkIsLast
           /\ SkipDepth > 0 => OutputSame

SkippedTagsChangeNothing ==
    (kconv = "markdownish" /\ (Handles("start") \/ Handles("end")) /\ kmd._ignore_depth > 0)
        => /\ kmd'.out = kmd.out
           /\ kmd'._in_pre = kmd._in_pre
           /\ kmd'._in_code_inline = kmd._in_code_inline
           /\ kmd'._pending_heading = kmd._pending_heading

SkipStep == UnmatchedCloseStaysZero /\ TextEmittedIffZero /\ SkippedTagsChangeNothing

C26_SkipDepth == []DepthNeverNegative /\ [][SkipStep]_vars

\* an unmatched closing tag, a chunk emitted, a skipped subtree opened, a chunk dropped
C26_Witness ==
    /\ kconv = "text"
    /\ kevents = <<EndEv(TagScript), DataEv(<<"&","l","t",";">>),
                   StartEv(TagNoscript), DataEv(<<"a">>)>>
    /\ kk = 5
    /\ ktx = [parts |-> << <<"<">> >>, _skip_depth |-> 1]

====
